---------------------------- MODULE Spec2Model ----------------------------
(***************************************************************************)
(* PowerCost-Tracker: the power-telemetry engine.                          *)
(*                                                                         *)
(* The module holds one state machine per part of the engine, over one set *)
(* of variables.  Each specification runs one part and keeps the variables *)
(* of the other parts at their parked values:                              *)
(*   SpecStartup   PowerMonitor::new and main's estimation fallback        *)
(*   SpecMonitor   the installed backend's operations, one call at a time  *)
(*   SpecLoops     the fast and the slow periodic task sharing the monitor *)
(*   SpecLoopsFair SpecLoops with the runtime's scheduling                 *)
(*   SpecReaders   SpecLoops with a reader of the critical-metrics cache   *)
(*   SpecRapl      RaplMonitor::get_power called by two threads at once    *)
(*   SpecCache     one CachedValue entry stored, aged and read             *)
(*   SpecCmd       run_command_with_timeout polling one child process      *)
(*   SpecBaseline  BaselineDetector under any sequence of its calls        *)
(*   SpecEstimator EstimationMonitor's estimates for any profile and load   *)
(*   SpecGpuProcs  the per-process GPU usage maps for any listing          *)
(*   SpecSlowCycles the two tasks under a configured extended threshold    *)
(*   SpecGpuEntry  WmiMonitor::get_gpu_power called by two threads at once  *)
(*   SpecLocks     the two tasks and three command handlers taking locks   *)
(*   SpecSessions  tracking sessions started and ended by two callers      *)
(*   SpecSeeded    one caller's sessions beside the baseline detector      *)
(*   SpecPricing   the running cost under rate and configuration changes   *)
(*   SpecTop       get_top_processes_with_pinned for any process list      *)
(* Times are in microseconds, energies in the counter's own unit.          *)
(***************************************************************************)
EXTENDS Integers, Sequences, FiniteSets, TLC

VARIABLES
    \* ---- startup: hardware/mod.rs PowerMonitor::new, main.rs main
    platform,       \* the build target: "linux" or "windows"
    selPc,          \* position inside PowerMonitor::new / main
    attempts,       \* the constructors called so far, in call order
    outcome,        \* constructor -> its result ("untried" before the call)
    source,         \* PowerMonitor.source: the installed backend, or "none"
    newResult,      \* what PowerMonitor::new returned: "pending", "Ok", "Err"
    \* ---- the clock (std::time::Instant), microseconds since construction
    now,
    \* ---- WmiMonitor / LinuxSystemMonitor fields
    gpu_source,         \* GpuSource
    nvml_state,         \* Option<NvmlState> is Some
    is_laptop,
    cpu_tdp_estimate,   \* watts
    gpu_cache,          \* Option<CachedValue<Option<GpuInfo>>>
    gpu_metrics_cache,  \* Option<CachedValue<Option<GpuMetrics>>>
    cpu_temp_cache,     \* Option<CachedValue<Option<f64>>>
    gpu_process_cache,  \* Option<CachedValue<HashMap<u32, f64>>>
    fan_cache,          \* Option<CachedValue<Option<FanMetrics>>>
    memory_info_cache,  \* Option<(Option<u64>, Option<String>)>
    \* ---- what the last monitor operation did (history)
    op,             \* its name, "none" before the first
    opExt,          \* the kinds of external call it made
    opWrote,        \* the cache entries it wrote
    opRet,          \* what it returned
    \* ---- RaplMonitor: hardware/linux.rs
    max_energy,     \* max_energy_range_uj, or the word's maximum when unreadable
    hw_energy,      \* the hardware counter energy_uj
    hw_total,       \* the counter's total advance since construction (history)
    last_energy,    \* Mutex<u64>
    last_time,      \* Mutex<Instant>
    lock_energy,    \* holder of the last_energy mutex, or "free"
    lock_time,      \* holder of the last_time mutex, or "free"
    rpc,            \* caller -> position inside get_power
    cur,            \* caller -> [energy, time]: its locals current_energy, current_time
    reads,          \* get_power calls started
    envSteps,       \* steps of the environment so far
    energy_by,      \* which update wrote last_energy (history)
    time_by,        \* which update wrote last_time (history)
    done,           \* the completed get_power calls, in completion order (history)
    \* ---- run_command_with_timeout: hardware/windows.rs
    cpc,            \* position inside the function
    child,          \* the child process: "none", "running", "exited", "reaped"
    timeout_ms,
    start,          \* Instant taken after spawn
    wake_at,        \* when the next poll is due: at spawn, then after each sleep
    cret,           \* the return value: "pending", "Some", "None"
    cwhy,           \* which return statement it was (history)
    exited_at,      \* when the child exited by itself, -1 if it has not (history)
    polled_at,      \* start.elapsed() at the last try_wait (history)
    \* ---- the two periodic tasks: main.rs
    fpc,            \* critical_monitoring_loop: position
    spc,            \* detailed_monitoring_loop: position
    monitor_lock,   \* holder of state.monitor: "free", "fast", "slow"
    READING_COUNT,
    last_reading_time,
    cumulative_wh,  \* app_state.cumulative_wh, in millijoules
    critical_metrics_cache,
    detailed_metrics_cache,
    reading,        \* the tick's (power_watts, cpu_usage, gpu_usage, gpu_power)
    energy_wh,      \* the tick's energy, in millijoules
    should_collect_extended,    \* the slow task's local
    tickExt,        \* the external calls the fast task made this tick (history)
    tickFailed,     \* the tick's fast read returned Err (history)
    failedTicks,    \* the ticks whose fast read returned Err (history)
    cumBefore,      \* cumulative_wh when the tick began (history)
    emitted,        \* critical-update events emitted (history)
    db_rows,        \* readings inserted in the database
    \* ---- a reader of the critical-metrics cache: main.rs get_critical_metrics
    observed,       \* what its last call returned, and after which tick (history)
    \* ---- BaselineDetector: hardware/baseline.rs
    samples,        \* VecDeque<f64>, the front first; watts as whole numbers
    max_samples,
    manual_baseline,    \* Option<f64>
    last_detected,      \* Option<f64>
    feed,           \* where add_sample's values come from: "any" or "recorded"
    fed,            \* recorded values added so far
    kept,           \* recorded values added since the last reset (history)
    bop,            \* the last call's name, "none" before the first (history)
    barg,           \* its arguments (history)
    bret,           \* what it returned (history)
    pinned,         \* the watts of the last set_manual_baseline not cleared since (history)
    detected,       \* the watts of the last detection not reset since (history)
    \* EstimationMonitor: hardware/estimator.rs
    category,       \* cpu_specs.category
    is_laptop_cpu,  \* cpu_specs.is_laptop
    cpu_loads,      \* what the last sys.refresh_cpu_usage() left: per-core usage, percent
    est_power,      \* the power of the last call, centiwatts (history)
    est_cpu,        \* the "cpu" component of the last get_reading, centiwatts (history)
    est_op,         \* the last call made (history)
    \* Per-process GPU usage: hardware/nvml_gpu.rs, hardware/windows.rs
    compute_procs,  \* running_compute_processes(): <<pid, used memory>> entries, None on Err
    graphics_procs, \* running_graphics_processes(): the same
    util_samples,   \* process_utilization_stats() / the pmon lines: <<pid, sm>> entries
    gp_ret,         \* the map the last call returned, tenths of a percent (history)
    gp_op,          \* the last call made (history)
    \* The configuration the slow task reads: core/config.rs
    extended_metrics_threshold, \* config.advanced.extended_metrics_threshold, percent
    \* ---- WmiMonitor::get_gpu_power called by two threads at once
    gpc,            \* caller -> position inside get_gpu_power
    gresult,        \* caller -> its local result
    gret,           \* caller -> what its last call returned, when, and whether
                    \* from the entry (history)
    installed,      \* the (value, capture time) pairs the refreshes made (history)
    \* ---- the locks of TauriState and of the backend: main.rs, windows.rs
    held,           \* lock -> the task holding it, or "free"
    running,        \* task -> the lock sequence it is running
    at,             \* task -> its position in that sequence
    \* ---- tracking sessions: main.rs start_tracking_session, end_tracking_session
    active_session, \* Option<SessionState>: id, baseline_watts, total_wh, surplus_wh
    db_sessions,    \* the sessions table: row id -> [baseline_watts, ended]
    baseline_auto,  \* config.advanced.baseline_auto
    baseline_watts, \* config.advanced.baseline_watts
    hpc,            \* caller -> position inside its command handler
    hloc,           \* caller -> the handler's locals
    hret,           \* caller -> what its last command returned (history)
    taken,          \* the session ids end calls took, in order (history)
    \* ---- the running cost: pricing/mod.rs, main.rs critical_monitoring_loop
    pricing_config, \* PricingEngine.config
    local_now,      \* Local::now(): minute of the day, month, weekday
    app_state,      \* AppState: cumulative_wh, current_cost
    published,      \* the last two critical snapshots' cumulative_wh and
                    \* current_cost, the newest last (history)
    \* ---- the process list: hardware/windows.rs get_top_processes_with_pinned
    top_in,         \* the call's inputs: processes, limit, pinned_names
    top_ret         \* what the call returned, None before it

startupVars == <<platform, selPc, attempts, outcome, source, newResult>>
fieldVars == <<gpu_source, nvml_state, is_laptop, cpu_tdp_estimate>>
cacheVars == <<gpu_cache, gpu_metrics_cache, cpu_temp_cache, gpu_process_cache,
               fan_cache, memory_info_cache>>
opVars == <<op, opExt, opWrote, opRet>>

raplVars == <<max_energy, hw_energy, hw_total, last_energy, last_time, lock_energy,
              lock_time, rpc, cur, reads, envSteps, energy_by, time_by, done>>

cmdVars == <<cpc, child, timeout_ms, start, wake_at, cret, cwhy, exited_at, polled_at>>

loopVars == <<fpc, spc, monitor_lock, READING_COUNT, last_reading_time, cumulative_wh,
              critical_metrics_cache, detailed_metrics_cache, reading, energy_wh,
              should_collect_extended, tickExt, tickFailed, failedTicks, cumBefore,
              emitted, db_rows>>

readerVars == <<observed>>

\* The parts that run beside the monitor and its two tasks.
baselineVars == <<samples, max_samples, manual_baseline, last_detected, feed, fed, kept,
                  bop, barg, bret, pinned, detected>>

estVars == <<category, is_laptop_cpu, cpu_loads, est_power, est_cpu, est_op>>

gpuProcVars == <<compute_procs, graphics_procs, util_samples, gp_ret, gp_op>>

configVars == <<extended_metrics_threshold>>

entryVars == <<gpc, gresult, gret, installed>>

lockVars == <<held, running, at>>

sessionVars == <<active_session, db_sessions, baseline_auto, baseline_watts, hpc, hloc,
                 hret, taken>>

pricingVars == <<pricing_config, local_now, app_state, published>>

topVars == <<top_in, top_ret>>

\* The parts added after the cache entry.
lateVars == <<lockVars, sessionVars, pricingVars, topVars>>

moreVars == <<readerVars, baselineVars, estVars, gpuProcVars, configVars, entryVars, lateVars>>

vars == <<startupVars, now, fieldVars, cacheVars, opVars, raplVars, cmdVars, loopVars,
          moreVars>>

\* What the energy counter's own steps leave alone.
notRapl == <<startupVars, fieldVars, cacheVars, opVars, cmdVars, loopVars, moreVars>>

(***************************************************************************)
(* Option<T>: None is the empty tuple, Some(x) the one-element tuple.      *)
(***************************************************************************)
None == <<>>
Some(x) == <<x>>
IsSome(o) == o # <<>>
Unwrap(o) == o[1]

(***************************************************************************)
(* The TTL cache: hardware/windows.rs CachedValue<T>.                      *)
(***************************************************************************)
UsPerMs == 1000

\* Duration::as_millis: whole milliseconds, the remainder dropped.
AsMillis(d) == d \div UsPerMs

\* Instant::elapsed of an instant t.
Elapsed(t) == IF now >= t THEN now - t ELSE 0

\* CachedValue::new stamping the value already in the GPU-wattage entry.
CachedValueNewKeepingValue(v) ==
    [value |-> IF gpu_cache = <<>> THEN v ELSE gpu_cache[1].value, timestamp |-> now]

CachedValueNew(v) == [value |-> v, timestamp |-> now]

CachedValueGetStale(c, max_age_ms) ==
    IF AsMillis(Elapsed(c.timestamp)) <= max_age_ms THEN Some(c.value) ELSE None

CachedValueGet(c, max_age_ms) ==
    IF AsMillis(Elapsed(c.timestamp)) < max_age_ms THEN Some(c.value) ELSE None

\* `if let Some(ref cached) = *cache { if let Some(value) = cached.get(ttl) {..} }`
Lookup(cache, ttl) == IF IsSome(cache) THEN CachedValueGet(Unwrap(cache), ttl) ELSE None

GPU_COMMAND_TIMEOUT_MS == 1500
GpuPowerTtlMs == 2000
NvmlTtlMs == 500
CliTtlMs == 2000
CpuTempTtlMs == 3000
FanTtlMs == 5000
FAST_PATH_CACHE_TTL_MS == 10000

(***************************************************************************)
(* What one operation finds outside the process: the CPU load sysinfo      *)
(* reports and the result of every external query it may make.  A CLI run  *)
(* ends "ok" (exit 0, output parsed), "fail" (non-zero exit or unparsable  *)
(* output) or "timeout" (killed by run_command_with_timeout).  Powers are  *)
(* in milliwatts.                                                          *)
(***************************************************************************)
GpuSources == {"NvmlNvidia", "Nvidia", "Amd", "None"}
Loads == {100}
GpuMilliwatts == {60000}
GpuUsages == {90}
CliKinds == {"ok", "fail", "timeout"}

GpuMetricsValues == [usage_percent : {Some(u) : u \in GpuUsages},
                     power_watts : {Some(60000)}]

Cli(kind, v) == [kind |-> kind, v |-> v]
CliOutcomes(Vals) == {Cli("ok", Some(v)) : v \in Vals} \cup {Cli("fail", None), Cli("timeout", None)}
\* What the caller of run_command_with_timeout makes of the run.
CliValue(o) == IF o.kind = "ok" THEN o.v ELSE None

\* One operation's sample.  inner: what the Linux sensor read gives (None:
\* the read fails); for the energy counter only whether it fails, the value
\* being the counter's.  The fields an operation does not look at are fixed.
Quiet ==
    [load |-> 0, inner |-> Some(45000), nvml_power |-> None,
     cli_power |-> Cli("fail", None), amd_sysfs |-> None, nvml_metrics |-> None,
     cli_metrics |-> Cli("fail", None), cpu_temp |-> Cli("timeout", None),
     fans |-> Cli("timeout", None), memory |-> Cli("timeout", None),
     gpu_procs |-> Cli("timeout", None), voltages |-> None]

\* The queries a backend never makes keep their fixed value.
UsesNvml == nvml_state
UsesCli == source = "wmi" /\ gpu_source # "None"
OnLinux == source \in {"rapl", "hwmon", "battery"}

NvmlPowers == IF UsesNvml THEN {None} \cup {Some(w) : w \in GpuMilliwatts} ELSE {None}
NvmlMetrics == IF UsesNvml THEN {None} \cup {Some(v) : v \in GpuMetricsValues} ELSE {None}
CliPowers == IF UsesCli THEN CliOutcomes(GpuMilliwatts) ELSE {Cli("fail", None)}
CliMetrics == IF UsesCli THEN CliOutcomes(GpuMetricsValues) ELSE {Cli("fail", None)}

PowerSamples ==
    {[Quiet EXCEPT !.load = l, !.inner = i, !.nvml_power = n, !.cli_power = c,
                   !.amd_sysfs = a, !.nvml_metrics = m] :
        l \in Loads, i \in (IF OnLinux THEN {None, Some(45000)} ELSE {Some(45000)}),
        n \in NvmlPowers, c \in CliPowers,
        a \in (IF OnLinux THEN {None, Some(60000)} ELSE {None}),
        m \in (IF OnLinux THEN NvmlMetrics ELSE {None})}

\* The platform queries of one collection (temperature, fans, memory, GPU
\* processes) answer or time out together.
DetailSamples ==
    {[Quiet EXCEPT !.nvml_metrics = n, !.cli_metrics = c,
                   !.cpu_temp = IF q THEN Cli("ok", Some(55)) ELSE @,
                   !.fans = IF q THEN Cli("ok", Some(1200)) ELSE @,
                   !.memory = IF q THEN Cli("ok", Some(3200)) ELSE @,
                   !.gpu_procs = IF q THEN Cli("ok", Some("pmon")) ELSE @,
                   !.voltages = IF q THEN Some(12000) ELSE @] :
        n \in NvmlMetrics, c \in CliMetrics,
        q \in (IF source = "estimator" THEN {FALSE} ELSE BOOLEAN)}

(***************************************************************************)
(* WmiMonitor: hardware/windows.rs.  Each operator gives what the method   *)
(* returns (ret), the cache entry it leaves, the external calls it makes   *)
(* (ext) and the cache entries it writes (wrote).                          *)
(***************************************************************************)
\* get_cpu_info + calculate_cpu_power, in milliwatts:
\* tdp * 0.15 + (load / 100) * tdp * 0.85.
CalculateCpuPower(load) ==
    cpu_tdp_estimate * 150 + (load * cpu_tdp_estimate * 850) \div 100

EstimateBasePower == IF is_laptop THEN 10000 ELSE 30000

NvmlUsable == gpu_source = "NvmlNvidia" /\ nvml_state

GetGpuPower(x) ==
    IF NvmlUsable /\ IsSome(x.nvml_power)
    THEN [ret |-> x.nvml_power, gpu_cache |-> gpu_cache,
          ext |-> {"nvml"}, wrote |-> {}]
    ELSE LET pre == IF NvmlUsable THEN {"nvml"} ELSE {}
             hit == Lookup(gpu_cache, GpuPowerTtlMs)
         IN  IF IsSome(hit)
             THEN [ret |-> Unwrap(hit), gpu_cache |-> gpu_cache,
                   ext |-> pre, wrote |-> {}]
             ELSE LET result == IF gpu_source = "None" THEN None
                                ELSE CliValue(x.cli_power)
                  IN  [ret |-> result,
                       gpu_cache |-> Some(CachedValueNew(result)),
                       ext |-> pre \cup (IF gpu_source = "None" THEN {}
                                         ELSE {"subprocess"}),
                       wrote |-> {"gpu_cache"}]

\* get_cached_gpu_data_for_fast_path holding the entries to the detailed
\* path's own TTLs.
GetCachedGpuDataShortLived ==
    LET ttl == IF gpu_source = "NvmlNvidia" THEN NvmlTtlMs ELSE CliTtlMs
        m == Lookup(gpu_metrics_cache, ttl)
        g == Lookup(gpu_cache, GpuPowerTtlMs)
    IN  [gpu_usage |-> IF IsSome(m) /\ IsSome(Unwrap(m))
                       THEN Unwrap(Unwrap(m)).usage_percent ELSE None,
         gpu_power |-> IF IsSome(g) THEN Unwrap(g) ELSE None]

\* get_cached_gpu_data_for_fast_path: (gpu_usage, gpu_power), from the caches only.
GetCachedGpuDataForFastPath ==
    LET m == Lookup(gpu_metrics_cache, FAST_PATH_CACHE_TTL_MS)
        g == Lookup(gpu_cache, FAST_PATH_CACHE_TTL_MS)
    IN  [gpu_usage |-> IF IsSome(m) /\ IsSome(Unwrap(m))
                       THEN Unwrap(Unwrap(m)).usage_percent ELSE None,
         gpu_power |-> IF IsSome(g) THEN Unwrap(g) ELSE None]

OptWatts(o) == IF IsSome(o) THEN Unwrap(o) ELSE 0

\* The six cache fields as they stand.
Caches ==
    [gpu_cache |-> gpu_cache, gpu_metrics_cache |-> gpu_metrics_cache,
     cpu_temp_cache |-> cpu_temp_cache, gpu_process_cache |-> gpu_process_cache,
     fan_cache |-> fan_cache, memory_info_cache |-> memory_info_cache]

\* get_power_watts_fast_impl: CPU estimate + cached GPU power + base power.
WmiFastImpl(x) ==
    LET c == GetCachedGpuDataForFastPath
    IN  [ret |-> [ok |-> TRUE,
                  power |-> CalculateCpuPower(x.load) + OptWatts(c.gpu_power)
                            + EstimateBasePower,
                  cpu |-> x.load,
                  gpu_usage |-> c.gpu_usage,
                  gpu_power |-> c.gpu_power],
         caches |-> Caches, ext |-> {}, wrote |-> {}]

WmiGetPowerWatts(x) ==
    LET g == GetGpuPower(x)
    IN  [ret |-> [ok |-> TRUE,
                  power |-> CalculateCpuPower(x.load) + OptWatts(g.ret)
                            + EstimateBasePower],
         caches |-> [Caches EXCEPT !.gpu_cache = g.gpu_cache],
         ext |-> g.ext, wrote |-> g.wrote]

\* get_reading flagging every reading as estimated.
WmiGetReadingAlwaysEstimated(x) ==
    LET g == GetGpuPower(x)
    IN  [ret |-> [ok |-> TRUE,
                  power |-> CalculateCpuPower(x.load) + OptWatts(g.ret)
                            + EstimateBasePower,
                  is_estimated |-> TRUE],
         caches |-> [Caches EXCEPT !.gpu_cache = g.gpu_cache],
         ext |-> g.ext, wrote |-> g.wrote]

\* get_reading: the same sum, with is_estimated = no real GPU reading.
WmiGetReading(x) ==
    LET g == GetGpuPower(x)
    IN  [ret |-> [ok |-> TRUE,
                  power |-> CalculateCpuPower(x.load) + OptWatts(g.ret)
                            + EstimateBasePower,
                  is_estimated |-> ~IsSome(g.ret)],
         caches |-> [Caches EXCEPT !.gpu_cache = g.gpu_cache],
         ext |-> g.ext, wrote |-> g.wrote]

\* get_cpu_temperature: 3000 ms cache over PDH, then three PowerShell queries.
GetCpuTemperature(x) ==
    LET hit == Lookup(cpu_temp_cache, CpuTempTtlMs)
    IN  IF IsSome(hit)
        THEN [ret |-> Unwrap(hit), cache |-> cpu_temp_cache, ext |-> {}, wrote |-> {}]
        ELSE LET result == CliValue(x.cpu_temp)
             IN  [ret |-> result, cache |-> Some(CachedValueNew(result)),
                  ext |-> {"pdh", "subprocess"}, wrote |-> {"cpu_temp_cache"}]

GpuTtlMs == IF gpu_source = "NvmlNvidia" THEN NvmlTtlMs ELSE CliTtlMs

\* get_gpu_metrics: NVML first when it is the source, the CLI tool otherwise.
GetGpuMetrics(x) ==
    LET hit == Lookup(gpu_metrics_cache, GpuTtlMs)
    IN  IF IsSome(hit)
        THEN [ret |-> Unwrap(hit), cache |-> gpu_metrics_cache, ext |-> {}, wrote |-> {}]
        ELSE LET viaNvml == gpu_source = "NvmlNvidia" /\ nvml_state
                 nvmlOk == viaNvml /\ IsSome(x.nvml_metrics)
                 result == CASE gpu_source = "None" -> None
                             [] nvmlOk -> x.nvml_metrics
                             [] OTHER -> CliValue(x.cli_metrics)
                 ext == (IF viaNvml THEN {"nvml"} ELSE {})
                        \cup (IF gpu_source # "None" /\ ~nvmlOk
                              THEN {"subprocess"} ELSE {})
             IN  [ret |-> result, cache |-> Some(CachedValueNew(result)),
                  ext |-> ext, wrote |-> {"gpu_metrics_cache"}]

\* get_system_fans: 5000 ms cache over a PowerShell query.
GetSystemFans(x) ==
    LET hit == Lookup(fan_cache, FanTtlMs)
    IN  IF IsSome(hit)
        THEN [ret |-> Unwrap(hit), cache |-> fan_cache, ext |-> {}, wrote |-> {}]
        ELSE LET result == CliValue(x.fans)
             IN  [ret |-> result, cache |-> Some(CachedValueNew(result)),
                  ext |-> {"subprocess"}, wrote |-> {"fan_cache"}]

\* get_memory_info: the first fetch_memory_info result is kept for good.
GetMemoryInfo(x) ==
    IF IsSome(memory_info_cache)
    THEN [ret |-> Unwrap(memory_info_cache), cache |-> memory_info_cache,
          ext |-> {}, wrote |-> {}]
    ELSE LET result == CliValue(x.memory)
         IN  [ret |-> result, cache |-> Some(result),
              ext |-> {"subprocess"}, wrote |-> {"memory_info_cache"}]

\* get_gpu_process_usage: with NVML the map comes from NVML alone.
GetGpuProcessUsage(x) ==
    LET hit == Lookup(gpu_process_cache, GpuTtlMs)
    IN  IF IsSome(hit)
        THEN [ret |-> Unwrap(hit), cache |-> gpu_process_cache, ext |-> {}, wrote |-> {}]
        ELSE LET viaNvml == gpu_source = "NvmlNvidia" /\ nvml_state
                 result == CASE gpu_source = "None" -> None
                             [] viaNvml -> Some("nvml")
                             [] OTHER -> CliValue(x.gpu_procs)
                 ext == CASE gpu_source = "None" -> {}
                          [] viaNvml -> {"nvml"}
                          [] OTHER -> {"subprocess"}
             IN  [ret |-> result, cache |-> Some(CachedValueNew(result)),
                  ext |-> ext, wrote |-> {"gpu_process_cache"}]

\* collect_detailed_metrics_impl with `get_system_metrics_impl(extended)?`: a
\* GPU query that gave nothing becomes the call's Err.
WmiCollectDetailedPropagates(x, extended) ==
    LET g == GetGpuMetrics(x)
    IN  [ret |-> [ok |-> IsSome(g.ret), gpu |-> g.ret, fans |-> None, voltages |-> None,
                  extended_collected |-> extended],
         caches |-> [Caches EXCEPT !.gpu_metrics_cache = g.cache],
         ext |-> g.ext, wrote |-> g.wrote]

\* collect_detailed_metrics_impl with the telemetry refresh also installing
\* its wattage in the GPU-wattage entry.
WmiCollectDetailedSharingEntry(x, extended) ==
    LET t == GetCpuTemperature(x)
        g == GetGpuMetrics(x)
        f == IF extended THEN GetSystemFans(x)
             ELSE [ret |-> None, cache |-> fan_cache, ext |-> {}, wrote |-> {}]
        m == GetMemoryInfo(x)
        p == GetGpuProcessUsage(x)
    IN  [ret |-> [ok |-> TRUE,
                  gpu |-> g.ret,
                  fans |-> f.ret,
                  voltages |-> None,
                  extended_collected |-> extended],
         caches |-> [gpu_cache |-> IF g.wrote = {} THEN gpu_cache
                                   ELSE Some(CachedValueNew(None)),
                     gpu_metrics_cache |-> g.cache,
                     cpu_temp_cache |-> t.cache,
                     gpu_process_cache |-> p.cache,
                     fan_cache |-> f.cache,
                     memory_info_cache |-> m.cache],
         ext |-> t.ext \cup g.ext \cup f.ext \cup m.ext \cup p.ext,
         wrote |-> t.wrote \cup g.wrote \cup f.wrote \cup m.wrote \cup p.wrote]

\* collect_detailed_metrics_impl: get_system_metrics_impl(extended), then
\* get_top_processes_with_pinned.  It returns Ok whatever the queries did.
WmiCollectDetailed(x, extended) ==
    LET t == GetCpuTemperature(x)
        g == GetGpuMetrics(x)
        f == IF extended THEN GetSystemFans(x)
             ELSE [ret |-> None, cache |-> fan_cache, ext |-> {}, wrote |-> {}]
        m == GetMemoryInfo(x)
        p == GetGpuProcessUsage(x)
    IN  [ret |-> [ok |-> TRUE,
                  gpu |-> g.ret,
                  fans |-> f.ret,
                  voltages |-> None,
                  extended_collected |-> extended],
         caches |-> [gpu_cache |-> gpu_cache,
                     gpu_metrics_cache |-> g.cache,
                     cpu_temp_cache |-> t.cache,
                     gpu_process_cache |-> p.cache,
                     fan_cache |-> f.cache,
                     memory_info_cache |-> m.cache],
         ext |-> t.ext \cup g.ext \cup f.ext \cup m.ext \cup p.ext,
         wrote |-> t.wrote \cup g.wrote \cup f.wrote \cup m.wrote \cup p.wrote]

(***************************************************************************)
(* RaplMonitor: hardware/linux.rs.  The counter arithmetic is u64; the     *)
(* model keeps the wrap-around of a machine word at WordBits bits.         *)
(***************************************************************************)
WordBits == 11
WordModulus == 2 ^ WordBits
WordMax == WordModulus - 1

\* u64 subtraction and addition: the wrapped value, and whether it wrapped
\* (a panic in a debug build, a wrong value in a release build).
SubWord(a, b) == [v |-> (a - b) % WordModulus, fault |-> a < b]
AddWord(a, b) == [v |-> (a + b) % WordModulus, fault |-> a + b > WordMax]

EnergyDiffNoWrap(current_energy, last) ==
    SubWord(current_energy, last)

\* `if current_energy >= *last_energy { current - last } else { (max - last) + current }`
EnergyDiff(current_energy, last) ==
    IF current_energy >= last
    THEN SubWord(current_energy, last)
    ELSE LET room == SubWord(max_energy, last)
             sum == AddWord(room.v, current_energy)
         IN  [v |-> sum.v, fault |-> room.fault \/ sum.fault]

\* Instant::duration_since saturates at zero.
DurationSince(t, earlier) == IF t >= earlier THEN t - earlier ELSE 0

\* energy_diff (uJ) / time_diff (s) / 1e6, in milliwatts; 0 when no time passed.
PowerMilliwatts(energy_diff, time_diff) ==
    IF time_diff > 0 THEN (energy_diff * 1000) \div time_diff ELSE 0

Callers == {"a", "b"}
MaxReads == 3
MaxEnvSteps == 3
RaplStepUs == 1000000
EnergySteps == {20, 40, 480}
\* RaplMonitor::new: max_energy_range_uj parsed, or unwrap_or(u64::MAX).
MaxEnergyChoices == {1000, WordMax}
InitialEnergies == {0, 980}

\* The counter runs from 0 to max_energy and starts over.
Advanced(e, d) == IF e + d > max_energy THEN e + d - max_energy ELSE e + d

RaplConstructed(m, e) ==
    /\ max_energy = m
    /\ hw_energy = e
    /\ hw_total = 0
    /\ last_energy = e
    /\ last_time = 0
    /\ lock_energy = "free"
    /\ lock_time = "free"
    /\ rpc = [c \in Callers |-> "idle"]
    /\ cur = [c \in Callers |-> [energy |-> 0, time |-> 0]]
    /\ reads = 0
    /\ envSteps = 0
    /\ energy_by = 0
    /\ time_by = 0
    /\ done = <<>>

RaplParked == RaplConstructed(0, 0)

\* The hardware counts on while a second of time passes.
RaplEnv ==
    /\ envSteps < MaxEnvSteps
    /\ \E d \in EnergySteps :
         /\ hw_energy' = Advanced(hw_energy, d)
         /\ hw_total' = hw_total + d
    /\ now' = now + RaplStepUs
    /\ envSteps' = envSteps + 1
    /\ UNCHANGED <<max_energy, last_energy, last_time, lock_energy, lock_time, rpc,
                   cur, reads, energy_by, time_by, done>>
    /\ UNCHANGED notRapl

\* get_power, first two lines: read_energy()? and Instant::now(), before any lock.
RaplReadEnergy(c) ==
    /\ rpc[c] = "idle"
    /\ reads < MaxReads
    /\ reads' = reads + 1
    /\ cur' = [cur EXCEPT ![c] = [energy |-> hw_energy, time |-> now]]
    /\ rpc' = [rpc EXCEPT ![c] = "lock_energy"]
    /\ UNCHANGED <<now, max_energy, hw_energy, hw_total, last_energy, last_time,
                   lock_energy, lock_time, envSteps, energy_by, time_by, done>>
    /\ UNCHANGED notRapl

\* read_energy()? fails (the file is unreadable or unparsable): Err, nothing stored.
RaplFailed(c) ==
    /\ reads < MaxReads
    /\ reads' = reads + 1
    /\ done' = Append(done, [caller |-> c, ok |-> FALSE, prior |-> 0, last |-> 0,
                             current |-> 0, diff |-> 0, fault |-> FALSE,
                             torn |-> FALSE, power |-> 0])
    /\ UNCHANGED <<max_energy, hw_energy, hw_total, last_energy, last_time,
                   lock_energy, lock_time, rpc, cur, envSteps, energy_by, time_by>>

RaplReadFails(c) ==
    /\ rpc[c] = "idle"
    /\ RaplFailed(c)
    /\ UNCHANGED now
    /\ UNCHANGED notRapl

\* self.last_energy.lock().unwrap()
RaplLockEnergy(c) ==
    /\ rpc[c] = "lock_energy"
    /\ lock_energy = "free"
    /\ lock_energy' = c
    /\ rpc' = [rpc EXCEPT ![c] = "lock_time"]
    /\ UNCHANGED <<now, max_energy, hw_energy, hw_total, last_energy, last_time,
                   lock_time, cur, reads, envSteps, energy_by, time_by, done>>
    /\ UNCHANGED notRapl

\* self.last_time.lock().unwrap()
RaplLockTime(c) ==
    /\ rpc[c] = "lock_time"
    /\ lock_time = "free"
    /\ lock_time' = c
    /\ rpc' = [rpc EXCEPT ![c] = "update"]
    /\ UNCHANGED <<now, max_energy, hw_energy, hw_total, last_energy, last_time,
                   lock_energy, cur, reads, envSteps, energy_by, time_by, done>>
    /\ UNCHANGED notRapl

\* get_power under both guards, with the locals (current_energy, current_time):
\* the delta, the two stores, the power.
RaplStore(c, current_energy, current_time) ==
    /\ LET e == EnergyDiff(current_energy, last_energy)
           time_diff == DurationSince(current_time, last_time)
       IN  done' = Append(done,
                      [caller |-> c, ok |-> TRUE, prior |-> energy_by,
                       last |-> last_energy, current |-> current_energy,
                       diff |-> e.v, fault |-> e.fault,
                       torn |-> energy_by # time_by,
                       power |-> PowerMilliwatts(e.v, time_diff)])
    /\ last_energy' = current_energy
    /\ last_time' = current_time
    /\ energy_by' = Len(done) + 1
    /\ time_by' = Len(done) + 1

\* The rest of get_power; the guards drop on return.
RaplUpdate(c) ==
    /\ rpc[c] = "update"
    /\ lock_energy = c /\ lock_time = c
    /\ RaplStore(c, cur[c].energy, cur[c].time)
    /\ lock_energy' = "free"
    /\ lock_time' = "free"
    /\ rpc' = [rpc EXCEPT ![c] = "idle"]
    /\ UNCHANGED <<now, max_energy, hw_energy, hw_total, cur, reads, envSteps>>
    /\ UNCHANGED notRapl

\* get_power run by a caller nobody runs beside (the monitor's owner).
RaplGetPower(c) ==
    /\ reads < MaxReads
    /\ reads' = reads + 1
    /\ RaplStore(c, hw_energy, now)
    /\ UNCHANGED <<max_energy, hw_energy, hw_total, lock_energy, lock_time, rpc,
                   cur, envSteps>>

\* What that call returns.
RaplPowerNow ==
    PowerMilliwatts(EnergyDiff(hw_energy, last_energy).v, DurationSince(now, last_time))

RaplNext ==
    \/ RaplEnv
    \/ \E c \in Callers : RaplReadEnergy(c)
    \/ \E c \in Callers : RaplReadFails(c)
    \/ \E c \in Callers : RaplLockEnergy(c)
    \/ \E c \in Callers : RaplLockTime(c)
    \/ \E c \in Callers : RaplUpdate(c)

(***************************************************************************)
(* The Linux monitor (hardware/linux.rs LinuxSystemMonitor), the estimator *)
(* (hardware/estimator.rs) and the PowerSource defaults (hardware/mod.rs). *)
(***************************************************************************)
\* InnerPowerSource::get_power_watts: Some(milliwatts), or None for Err.
InnerPower(x) ==
    IF source = "rapl"
    THEN IF IsSome(x.inner) THEN Some(RaplPowerNow) ELSE None
    ELSE x.inner

\* What the inner read does to the energy-counter state.
InnerEffect(x) ==
    IF source = "rapl"
    THEN IF IsSome(x.inner) THEN RaplGetPower("monitor") ELSE RaplFailed("monitor")
    ELSE UNCHANGED raplVars

\* LinuxSystemMonitor::get_gpu_power: NVML, then the AMD sysfs files.
LinuxGetGpuPower(x) ==
    IF nvml_state /\ IsSome(x.nvml_power)
    THEN [ret |-> x.nvml_power, ext |-> {"nvml"}]
    ELSE [ret |-> x.amd_sysfs,
          ext |-> (IF nvml_state THEN {"nvml"} ELSE {}) \cup {"sysfs"}]

FastErr == [ok |-> FALSE, power |-> 0, cpu |-> 0, gpu_usage |-> None, gpu_power |-> None]

\* LinuxSystemMonitor::get_power_watts_fast
LinuxFast(x) ==
    LET power == InnerPower(x)
        g == LinuxGetGpuPower(x)
        usage == IF nvml_state /\ IsSome(x.nvml_metrics)
                 THEN Unwrap(x.nvml_metrics).usage_percent ELSE None
    IN  IF ~IsSome(power)
        THEN [ret |-> FastErr, caches |-> Caches, ext |-> {}, wrote |-> {}]
        ELSE [ret |-> [ok |-> TRUE, power |-> Unwrap(power), cpu |-> x.load,
                       gpu_usage |-> usage, gpu_power |-> g.ret],
              caches |-> Caches,
              ext |-> g.ext \cup (IF nvml_state THEN {"nvml"} ELSE {}),
              wrote |-> {}]

\* LinuxSystemMonitor::get_power_watts and get_reading: the inner read alone.
LinuxGetReading(x) ==
    LET power == InnerPower(x)
    IN  [ret |-> [ok |-> IsSome(power), power |-> OptWatts(power),
                  is_estimated |-> FALSE],
         caches |-> Caches, ext |-> {}, wrote |-> {}]

\* LinuxSystemMonitor::collect_detailed_metrics: live queries, no cache.
LinuxCollectDetailed(x, extended) ==
    LET viaNvml == nvml_state /\ IsSome(x.nvml_metrics)
    IN  [ret |-> [ok |-> TRUE,
                  gpu |-> IF viaNvml THEN x.nvml_metrics ELSE None,
                  fans |-> IF extended THEN CliValue(x.fans) ELSE None,
                  voltages |-> IF extended THEN x.voltages ELSE None,
                  extended_collected |-> extended],
         caches |-> Caches,
         ext |-> (IF nvml_state THEN {"nvml"} ELSE {})
                 \cup (IF viaNvml THEN {} ELSE {"sysfs"}),
         wrote |-> {}]

\* EstimationMonitor::calculate_estimated_power with every core at the same
\* load: idle + load_factor * (max - idle), load_factor = avg * (0.7 + 0.3 * active).
EstimatorProfile == [tdp |-> 65, idle_pct |-> 12, max_pct |-> 120]

CalculateEstimatedPower(load) ==
    LET idle == EstimatorProfile.tdp * EstimatorProfile.idle_pct * 10
        max == EstimatorProfile.tdp * EstimatorProfile.max_pct * 10
        active == IF load > 5 THEN 100 ELSE 0
        factor == (load * (70 + (30 * active) \div 100)) \div 100
    IN  idle + (factor * (max - idle)) \div 100

\* EstimationMonitor::get_power_watts: Ok(self.calculate_estimated_power())
EstimationGetPowerWatts(x) == [ok |-> TRUE, power |-> CalculateEstimatedPower(x.load)]

\* The default reporting a GPU at zero where it has none to report.
PowerSourceDefaultFastZeroGpu(r) ==
    IF r.ok
    THEN [ok |-> TRUE, power |-> r.power, cpu |-> 0, gpu_usage |-> Some(0),
          gpu_power |-> Some(0)]
    ELSE FastErr

\* PowerSource::get_power_watts_fast, the default, on the get_power_watts
\* result r: `let power = self.get_power_watts()?; Ok((power, 0.0, None, None))`
PowerSourceDefaultFast(r) ==
    IF r.ok
    THEN [ok |-> TRUE, power |-> r.power, cpu |-> 0, gpu_usage |-> None,
          gpu_power |-> None]
    ELSE FastErr

\* The estimator backend overrides neither default.
DefaultFast(x) ==
    [ret |-> PowerSourceDefaultFast(EstimationGetPowerWatts(x)),
     caches |-> Caches, ext |-> {}, wrote |-> {}]

EstimatorGetReading(x) ==
    [ret |-> [ok |-> TRUE, power |-> CalculateEstimatedPower(x.load),
              is_estimated |-> TRUE],
     caches |-> Caches, ext |-> {}, wrote |-> {}]

\* PowerSource::collect_detailed_metrics, the default: Err.
DefaultCollectDetailed(x, extended) ==
    [ret |-> [ok |-> FALSE, err |-> "HardwareNotSupported", gpu |-> None,
              fans |-> None, voltages |-> None, extended_collected |-> FALSE],
     caches |-> Caches, ext |-> {}, wrote |-> {}]

(***************************************************************************)
(* PowerMonitor: the dispatch to the installed backend.                    *)
(***************************************************************************)
GetPowerWattsFast(x) ==
    CASE source = "wmi" -> WmiFastImpl(x)
      [] source = "estimator" -> DefaultFast(x)
      [] OTHER -> LinuxFast(x)

GetReading(x) ==
    CASE source = "wmi" -> WmiGetReading(x)
      [] source = "estimator" -> EstimatorGetReading(x)
      [] OTHER -> LinuxGetReading(x)

CollectDetailedMetrics(x, extended) ==
    CASE source = "wmi" -> WmiCollectDetailed(x, extended)
      [] source = "estimator" -> DefaultCollectDetailed(x, extended)
      [] OTHER -> LinuxCollectDetailed(x, extended)

\* PowerMonitor::is_estimated
IsEstimated ==
    CASE source = "wmi" -> gpu_source = "None"
      [] source = "estimator" -> TRUE
      [] OTHER -> FALSE

\* Does the operation read the Linux sensor?
ReadsInner == source \in {"rapl", "hwmon", "battery"}

\* The caches a monitor operation leaves.
Stores(r) ==
    /\ gpu_cache' = r.caches.gpu_cache
    /\ gpu_metrics_cache' = r.caches.gpu_metrics_cache
    /\ cpu_temp_cache' = r.caches.cpu_temp_cache
    /\ gpu_process_cache' = r.caches.gpu_process_cache
    /\ fan_cache' = r.caches.fan_cache
    /\ memory_info_cache' = r.caches.memory_info_cache

\* The state a monitor operation leaves: its caches and its record.
Leaves(name, r) ==
    /\ Stores(r)
    /\ op' = name
    /\ opExt' = r.ext
    /\ opWrote' = r.wrote
    /\ opRet' = r.ret

(***************************************************************************)
(* The values a part's variables keep while another part runs.             *)
(***************************************************************************)
FieldsParked ==
    /\ gpu_source = "None"
    /\ nvml_state = FALSE
    /\ is_laptop = FALSE
    /\ cpu_tdp_estimate = 0

CachesEmpty ==
    /\ gpu_cache = None
    /\ gpu_metrics_cache = None
    /\ cpu_temp_cache = None
    /\ gpu_process_cache = None
    /\ fan_cache = None
    /\ memory_info_cache = None

OpParked ==
    /\ op = "none"
    /\ opExt = {}
    /\ opWrote = {}
    /\ opRet = None

CmdParked ==
    /\ cpc = "spawn"
    /\ child = "none"
    /\ timeout_ms = GPU_COMMAND_TIMEOUT_MS
    /\ start = 0
    /\ wake_at = 0
    /\ cret = "pending"
    /\ cwhy = "none"
    /\ exited_at = -1
    /\ polled_at = 0

NoReading == [power |-> 0, cpu |-> 0, gpu_usage |-> None, gpu_power |-> None]

LoopsParked ==
    /\ fpc = "tick"
    /\ spc = "tick"
    /\ monitor_lock = "free"
    /\ READING_COUNT = 0
    /\ last_reading_time = 0
    /\ cumulative_wh = 0
    /\ critical_metrics_cache = None
    /\ detailed_metrics_cache = None
    /\ reading = NoReading
    /\ energy_wh = 0
    /\ should_collect_extended = FALSE
    /\ tickExt = {}
    /\ tickFailed = FALSE
    /\ failedTicks = 0
    /\ cumBefore = 0
    /\ emitted = 0
    /\ db_rows = 0

ReaderParked == observed = None

DEFAULT_SAMPLE_WINDOW == 60

\* BaselineDetector::new and with_window_size: an empty window, nothing set.
BaselineConstructed(size) ==
    /\ samples = <<>>
    /\ max_samples = size
    /\ manual_baseline = None
    /\ last_detected = None
    /\ fed = 0
    /\ kept = 0
    /\ bop = "none"
    /\ barg = <<>>
    /\ bret = <<>>
    /\ pinned = None
    /\ detected = None

BaselineParked == BaselineConstructed(DEFAULT_SAMPLE_WINDOW) /\ feed = "recorded"

\* An estimator that nothing has called.
EstimatorConstructed ==
    /\ cpu_loads = <<>>
    /\ est_power = 0
    /\ est_cpu = 0
    /\ est_op = "none"

EstimatorParked ==
    /\ category = "GenericDesktop"
    /\ is_laptop_cpu = FALSE
    /\ EstimatorConstructed

\* No per-process query made, nothing for one to find.
GpuProcsParked ==
    /\ compute_procs = None
    /\ graphics_procs = None
    /\ util_samples = None
    /\ gp_ret = <<>>
    /\ gp_op = "none"

\* No get_gpu_power call in progress, none made.
EntryParked ==
    /\ gpc = [c \in Callers |-> "check"]
    /\ gresult = [c \in Callers |-> None]
    /\ gret = [c \in Callers |-> None]
    /\ installed = {}

Locks == {"app_state", "monitor", "pricing", "db", "config", "baseline_detector",
          "active_session", "critical_metrics_cache", "detailed_metrics_cache", "i18n",
          "sys", "gpu_cache", "gpu_metrics_cache", "cpu_temp_cache"}

Tasks == {"critical", "detailed", "get_dashboard_data", "set_config", "get_history"}

\* No lock taken, no task started.
LocksParked ==
    /\ held = [l \in Locks |-> "free"]
    /\ running = [t \in Tasks |-> <<>>]
    /\ at = [t \in Tasks |-> 1]

NoLocals == [baseline |-> 0, id |-> 0, auto |-> FALSE, window |-> <<>>, manual |-> None]

\* No session started, no command running; the default configuration.
SessionsParked ==
    /\ active_session = None
    /\ db_sessions = <<>>
    /\ baseline_auto = TRUE
    /\ baseline_watts = 0
    /\ hpc = [c \in Callers |-> "idle"]
    /\ hloc = [c \in Callers |-> NoLocals]
    /\ hret = [c \in Callers |-> <<>>]
    /\ taken = <<>>

\* PricingConfig::default(): rates in 1/10000 of the currency unit per kWh, a
\* time string "HH:MM" as its parts split at ':', each part the number it
\* parses to or None.
DefaultPricingConfig ==
    [mode |-> "simple",
     simple |-> [rate_per_kwh |-> 2276],
     peak_offpeak |-> [peak_rate |-> 2700, offpeak_rate |-> 2000,
                       offpeak_start |-> <<Some(22), Some(0)>>,
                       offpeak_end |-> <<Some(6), Some(0)>>],
     seasonal |-> [summer_rate |-> 2000, winter_rate |-> 2500,
                   winter_months |-> {11, 12, 1, 2, 3}],
     tempo |-> [blue_peak |-> 1600, blue_offpeak |-> 1300, white_peak |-> 1900,
                white_offpeak |-> 1500, red_peak |-> 7600, red_offpeak |-> 1600]]

\* Noon on a Monday in July.
Noon == [hour |-> 12, minute |-> 0, month |-> 7, weekday |-> "Mon"]

\* The default pricing, nothing consumed, nothing published.
PricingParked ==
    /\ pricing_config = DefaultPricingConfig
    /\ local_now = Noon
    /\ app_state = [cumulative_wh |-> 0, current_cost |-> 0]
    /\ published = <<>>

\* No process list asked for.
TopParked ==
    /\ top_in = <<>>
    /\ top_ret = <<>>

LateParked == LocksParked /\ SessionsParked /\ PricingParked /\ TopParked

\* default_extended_threshold
ExtendedThreshold == 15

ConfigParked == extended_metrics_threshold = ExtendedThreshold

OthersParked == ReaderParked /\ BaselineParked /\ EstimatorParked /\ GpuProcsParked

MoreParked == OthersParked /\ ConfigParked /\ EntryParked /\ LateParked

\* Startup over, with backend b installed.
StartupDone(b) ==
    /\ platform = IF b = "wmi" THEN "windows" ELSE "linux"
    /\ selPc = "done"
    /\ attempts = <<>>
    /\ outcome = [c \in {"rapl", "hwmon", "battery", "wmi"} |-> "untried"]
    /\ source = b
    /\ newResult = "pending"

(***************************************************************************)
(* The energy counter alone, read by two callers at once.                  *)
(***************************************************************************)
RaplInit ==
    /\ StartupDone("rapl")
    /\ now = 0
    /\ FieldsParked
    /\ CachesEmpty
    /\ OpParked
    /\ \E m \in MaxEnergyChoices, e \in InitialEnergies : RaplConstructed(m, e)
    /\ CmdParked
    /\ LoopsParked
    /\ MoreParked

SpecRapl == RaplInit /\ [][RaplNext]_vars

\* Counter values at and next to the ends of 0..max_energy.
EdgeEnergies == {0, 1, 20, 980, max_energy - 1, max_energy}

\* The delta the specification gives for a stored and a new counter value.
SpecifiedDelta(last, current) ==
    IF current >= last THEN current - last ELSE (max_energy - last) + current

\* C5: for every stored last_energy and every new current_energy within
\* 0..max_energy, the delta is current - last when current >= last and
\* (max_energy - last) + current otherwise; it is never negative, never above
\* max_energy, and no step of the computation leaves the counter's word.
EnergyDeltaInRange ==
    /\ \A i \in 1..Len(done) :
           done[i].ok =>
               /\ done[i].last \in 0..max_energy /\ done[i].current \in 0..max_energy
               /\ done[i].diff = SpecifiedDelta(done[i].last, done[i].current)
               /\ done[i].diff >= 0
               /\ done[i].diff <= max_energy
               /\ ~done[i].fault
    /\ \A last \in EdgeEnergies, current \in EdgeEnergies :
           LET e == EnergyDiff(current, last)
           IN  /\ e.v = SpecifiedDelta(last, current)
               /\ e.v >= 0 /\ e.v <= max_energy
               /\ ~e.fault

\* max 1000, last 980, current 20 gives 40.
WrappedDeltaIsForty ==
    \E i \in 1..Len(done) :
        /\ max_energy = 1000
        /\ done[i].ok /\ done[i].last = 980 /\ done[i].current = 20
        /\ done[i].diff = 40

\* The deltas handed out by the first i completed reads, added up.
SumOfDiffs[i \in 0..MaxReads + 1] ==
    IF i = 0 \/ i > Len(done) THEN 0
    ELSE SumOfDiffs[i - 1] + (IF done[i].ok THEN done[i].diff ELSE 0)

\* C6: two callers reading at once behave as one critical section each: no
\* two reads compute their delta against the same prior sample, no read finds
\* last_energy and last_time written by different updates, and no counter
\* interval is counted twice (the deltas handed out never add up to more than
\* the counter has advanced).
ReadsAreOneCriticalSection ==
    /\ \A i, j \in 1..Len(done) :
           (i # j /\ done[i].ok /\ done[j].ok) => done[i].prior # done[j].prior
    /\ \A i \in 1..Len(done) : ~done[i].torn
    /\ SumOfDiffs[Len(done)] <= hw_total

\* A caller holding both guards compares a sample taken no earlier than the
\* stored one.
ComparesNewerSample ==
    \A c \in Callers : rpc[c] = "update" => cur[c].time >= last_time

\* C30: under every interleaving of concurrent reads the wraparound branch is
\* taken only if the counter really wrapped between the stored sample and the
\* new one: a counter value read before another caller stored a newer one is
\* never compared against the newer one, and no delta handed out is more than
\* the counter has advanced in all.
WrapBranchOnlyOnRealWrap ==
    /\ ComparesNewerSample
    /\ \A i \in 1..Len(done) : done[i].ok => done[i].diff <= hw_total

(***************************************************************************)
(* One cache entry alone: stored, aged and read with several max ages.     *)
(***************************************************************************)
MaxAgeUs == 700000
AgeSteps == {99750, 100000, 100250}
MaxAges == {NvmlTtlMs, CliTtlMs}
Temperatures == {None, Some(55)}

CacheInit ==
    /\ StartupDone("wmi")
    /\ now = 0
    /\ FieldsParked
    /\ gpu_cache = None
    /\ gpu_metrics_cache = None
    /\ \E v \in Temperatures : cpu_temp_cache = Some(CachedValueNew(v))
    /\ gpu_process_cache = None
    /\ fan_cache = None
    /\ memory_info_cache = None
    /\ OpParked
    /\ RaplParked
    /\ CmdParked
    /\ LoopsParked
    /\ MoreParked

notCache == <<startupVars, fieldVars, gpu_cache, gpu_metrics_cache, gpu_process_cache,
              fan_cache, memory_info_cache, raplVars, cmdVars, loopVars, moreVars>>

\* CachedValue::new(value)
CacheStore ==
    /\ \E v \in Temperatures : cpu_temp_cache' = Some(CachedValueNew(v))
    /\ op' = "new" /\ opExt' = {} /\ opWrote' = {"cpu_temp_cache"} /\ opRet' = None
    /\ UNCHANGED <<now, notCache>>

\* cached.get(max_age_ms)
CacheGet ==
    /\ \E max_age_ms \in MaxAges :
         opRet' = Some([max_age_ms |-> max_age_ms,
                        got |-> CachedValueGet(Unwrap(cpu_temp_cache), max_age_ms)])
    /\ op' = "get" /\ opExt' = {} /\ opWrote' = {}
    /\ UNCHANGED <<now, cpu_temp_cache, notCache>>

CacheAges ==
    /\ \E d \in AgeSteps :
         /\ now + d <= MaxAgeUs
         /\ now' = now + d
    /\ op' = "none" /\ opExt' = {} /\ opWrote' = {} /\ opRet' = None
    /\ UNCHANGED <<cpu_temp_cache, notCache>>

CacheNext ==
    \/ CacheStore
    \/ CacheGet
    \/ CacheAges

SpecCache == CacheInit /\ [][CacheNext]_vars

\* The entry's age, in microseconds.
EntryAge == now - Unwrap(cpu_temp_cache).timestamp

\* C4: get(max_age) returns the stored value exactly when the entry's age (now
\* minus capture time) is strictly less than max_age, and misses otherwise,
\* at age = max_age too: captured at 0 and read with 500 ms, the value comes
\* back at 400 ms and is missed at 600 ms.
GetIsStrictlyYounger ==
    op = "get" =>
        LET r == Unwrap(opRet)
        IN  /\ r.got = IF EntryAge < r.max_age_ms * UsPerMs
                       THEN Some(Unwrap(cpu_temp_cache).value) ELSE None
            /\ (r.max_age_ms = 500 /\ EntryAge = 400000) => IsSome(r.got)
            /\ (r.max_age_ms = 500 /\ EntryAge = 600000) => r.got = None

MissAtExactlyMaxAge ==
    /\ op = "get"
    /\ Unwrap(opRet).max_age_ms = 500
    /\ EntryAge = 500000
    /\ Unwrap(cpu_temp_cache).timestamp > 0
    /\ Unwrap(opRet).got = None

(***************************************************************************)
(* run_command_with_timeout: hardware/windows.rs.  The child runs beside   *)
(* the polling thread and may exit at any moment; the thread may sleep     *)
(* longer than the 10 ms it asked for.                                     *)
(***************************************************************************)
CmdTickUs == 5000
PollSleepMs == 10
MaxOversleepUs == 20000
TimeoutChoices == {40, GPU_COMMAND_TIMEOUT_MS}

TimeoutUs == timeout_ms * UsPerMs

CmdInit ==
    /\ StartupDone("wmi")
    /\ now = 0
    /\ FieldsParked
    /\ CachesEmpty
    /\ OpParked
    /\ RaplParked
    /\ cpc = "spawn"
    /\ child = "none"
    /\ timeout_ms \in TimeoutChoices
    /\ start = 0
    /\ wake_at = 0
    /\ cret = "pending"
    /\ cwhy = "none"
    /\ exited_at = -1
    /\ polled_at = 0
    /\ LoopsParked
    /\ MoreParked

notCmd == <<startupVars, fieldVars, cacheVars, opVars, raplVars, loopVars, moreVars>>

\* cmd.spawn().ok()? : the child starts, or None at once; then Instant::now().
CmdSpawn ==
    /\ cpc = "spawn"
    /\ \/ /\ child' = "running"
          /\ start' = now
          /\ wake_at' = now
          /\ cpc' = "poll"
          /\ UNCHANGED <<cret, cwhy>>
       \/ /\ cret' = "None"
          /\ cwhy' = "spawn_failed"
          /\ cpc' = "returned"
          /\ UNCHANGED <<child, start, wake_at>>
    /\ UNCHANGED <<now, timeout_ms, exited_at, polled_at, notCmd>>

\* The child exits by itself.
ChildExits ==
    /\ child = "running"
    /\ cpc # "returned"
    /\ child' = "exited"
    /\ exited_at' = now
    /\ UNCHANGED <<now, cpc, timeout_ms, start, wake_at, cret, cwhy, polled_at, notCmd>>

\* try_wait() = Ok(Some(status)): the pipes are read, Some(Output) returned.
CmdPollFinished ==
    /\ cpc = "poll"
    /\ child = "exited"
    /\ polled_at' = now - start
    /\ child' = "reaped"
    /\ cret' = "Some"
    /\ cwhy' = "finished"
    /\ cpc' = "returned"
    /\ UNCHANGED <<now, timeout_ms, start, wake_at, exited_at, notCmd>>

CmdPollRunningNoDeadline ==
    /\ cpc = "poll"
    /\ child = "running"
    /\ polled_at' = now - start
    /\ cpc' = "sleep"
    /\ wake_at' = now + PollSleepMs * UsPerMs
    /\ UNCHANGED <<now, child, timeout_ms, start, cret, cwhy, exited_at, notCmd>>

\* try_wait() = Ok(None): past the deadline go and kill, else sleep 10 ms.
CmdPollRunning ==
    /\ cpc = "poll"
    /\ child = "running"
    /\ polled_at' = now - start
    /\ IF now - start > TimeoutUs
       THEN /\ cpc' = "kill"
            /\ UNCHANGED wake_at
       ELSE /\ cpc' = "sleep"
            /\ wake_at' = now + PollSleepMs * UsPerMs
    /\ UNCHANGED <<now, child, timeout_ms, start, cret, cwhy, exited_at, notCmd>>

\* try_wait() = Err(_): None, the child left as it is.
CmdPollError ==
    /\ cpc = "poll"
    /\ child \in {"running", "exited"}
    /\ polled_at' = now - start
    /\ cret' = "None"
    /\ cwhy' = "try_wait_err"
    /\ cpc' = "returned"
    /\ UNCHANGED <<now, child, timeout_ms, start, wake_at, exited_at, notCmd>>

\* child.kill(); child.wait(); return None
CmdKill ==
    /\ cpc = "kill"
    /\ child' = "reaped"
    /\ cret' = "None"
    /\ cwhy' = "timeout"
    /\ cpc' = "returned"
    /\ UNCHANGED <<now, timeout_ms, start, wake_at, exited_at, polled_at, notCmd>>

\* thread::sleep(10 ms) is over.
CmdWake ==
    /\ cpc = "sleep"
    /\ now >= wake_at
    /\ cpc' = "poll"
    /\ UNCHANGED <<now, child, timeout_ms, start, wake_at, cret, cwhy, exited_at,
                   polled_at, notCmd>>

\* Time passes; the thread polls at most MaxOversleepUs after it was due to.
CmdTick ==
    /\ cpc \in {"sleep", "poll"}
    /\ now < wake_at + MaxOversleepUs
    /\ now' = now + CmdTickUs
    /\ UNCHANGED <<cmdVars, notCmd>>

CmdNext ==
    \/ CmdSpawn
    \/ ChildExits
    \/ CmdPollFinished
    \/ CmdPollRunning
    \/ CmdPollError
    \/ CmdKill
    \/ CmdWake
    \/ CmdTick

\* Every step of the polling thread is taken once it can be, and time passes.
SpecCmd ==
    /\ CmdInit
    /\ [][CmdNext]_vars
    /\ WF_vars(CmdSpawn)
    /\ WF_vars(CmdPollFinished \/ CmdPollRunning \/ CmdPollError)
    /\ WF_vars(CmdKill)
    /\ WF_vars(CmdWake)
    /\ WF_vars(CmdTick)

Returned ==
    \/ cwhy = "spawn_failed" /\ cret = "None" /\ child = "none"
    \/ cwhy = "finished" /\ cret = "Some" /\ child = "reaped" /\ exited_at # -1
    \/ cwhy = "timeout" /\ cret = "None" /\ child = "reaped" /\ polled_at > TimeoutUs
    \/ cwhy = "try_wait_err" /\ cret = "None"

PollingWithinDeadline ==
    /\ cpc = "returned" => Returned
    /\ cpc # "returned" => cret = "pending"
    /\ cpc = "sleep" => polled_at <= TimeoutUs
    /\ cpc = "kill" => polled_at > TimeoutUs

MaxAdvances == 2
AdvanceSteps == {2000000, 10000000}
TdpChoices == {65}
LaptopChoices == {FALSE}

\* WmiMonitor::new: gpu_source is NvmlNvidia exactly when NVML initialised,
\* else what detect_gpu_source found.
WmiGpuChoices == {<<"NvmlNvidia", TRUE>>, <<"Nvidia", FALSE>>, <<"Amd", FALSE>>,
                  <<"None", FALSE>>}

MonitorInit ==
    /\ \E b \in {"rapl", "hwmon", "battery", "wmi", "estimator"} : StartupDone(b)
    /\ now = 0
    /\ IF source = "wmi"
       THEN /\ \E g \in WmiGpuChoices : gpu_source = g[1] /\ nvml_state = g[2]
            /\ is_laptop \in LaptopChoices
            /\ cpu_tdp_estimate \in TdpChoices
       ELSE /\ gpu_source = "None"
            /\ nvml_state \in (IF source = "estimator" THEN {FALSE} ELSE BOOLEAN)
            /\ is_laptop = FALSE
            /\ cpu_tdp_estimate = 0
    /\ CachesEmpty
    /\ OpParked
    /\ IF source = "rapl"
       THEN \E m \in MaxEnergyChoices, e \in InitialEnergies : RaplConstructed(m, e)
       ELSE RaplParked
    /\ CmdParked
    /\ LoopsParked
    /\ MoreParked

InnerReady == source = "rapl" => reads < MaxReads

\* PowerMonitor::get_power_watts_fast
FastPath ==
    /\ InnerReady
    /\ \E x \in PowerSamples :
         /\ Leaves("fast", GetPowerWattsFast(x))
         /\ IF ReadsInner THEN InnerEffect(x) ELSE UNCHANGED raplVars
    /\ UNCHANGED <<startupVars, now, fieldVars, cmdVars, loopVars, moreVars>>

\* PowerMonitor::get_reading
Reading ==
    /\ InnerReady
    /\ \E x \in PowerSamples :
         /\ Leaves("reading", GetReading(x))
         /\ IF ReadsInner THEN InnerEffect(x) ELSE UNCHANGED raplVars
    /\ UNCHANGED <<startupVars, now, fieldVars, cmdVars, loopVars, moreVars>>

\* PowerMonitor::collect_detailed_metrics
Detailed ==
    /\ \E x \in DetailSamples, e \in BOOLEAN :
         Leaves("detailed", CollectDetailedMetrics(x, e))
    /\ UNCHANGED <<startupVars, now, fieldVars, raplVars, cmdVars, loopVars, moreVars>>

\* Time passes between two calls; the energy counter counts on.
Advance ==
    /\ envSteps < MaxAdvances
    /\ envSteps' = envSteps + 1
    /\ \E d \in AdvanceSteps : now' = now + d
    /\ IF source = "rapl"
       THEN /\ hw_energy' = Advanced(hw_energy, 20)
            /\ hw_total' = hw_total + 20
       ELSE UNCHANGED <<hw_energy, hw_total>>
    /\ op' = "none" /\ opExt' = {} /\ opWrote' = {} /\ opRet' = None
    /\ UNCHANGED <<startupVars, fieldVars, cacheVars, cmdVars, loopVars, moreVars,
                   max_energy, last_energy, last_time, lock_energy, lock_time, rpc,
                   cur, reads, energy_by, time_by, done>>

MonitorNext ==
    \/ FastPath
    \/ Reading
    \/ Detailed
    \/ Advance

SpecMonitor == MonitorInit /\ [][MonitorNext]_vars

\* What the caches can give the fast path right now.
FreshGpuPower ==
    LET g == Lookup(gpu_cache, FAST_PATH_CACHE_TTL_MS)
    IN  IF IsSome(g) THEN Unwrap(g) ELSE None

FreshGpuUsage ==
    LET m == Lookup(gpu_metrics_cache, FAST_PATH_CACHE_TTL_MS)
    IN  IF IsSome(m) /\ IsSome(Unwrap(m)) THEN Unwrap(Unwrap(m)).usage_percent ELSE None

\* C1: get_power_watts_fast starts no subprocess and makes no management-API
\* query, writes no cache entry, and reports GPU usage and GPU power as None
\* unless a cache entry younger than the fast-path tolerance holds them.  (A
\* fast call changes neither the clock nor the caches, so the caches it read
\* are the ones of the state it leaves.)
FastPathUsesCachesOnly ==
    op = "fast" =>
        /\ opExt \cap {"subprocess", "nvml"} = {}
        /\ opWrote = {}
        /\ opRet.ok => /\ opRet.gpu_power = FreshGpuPower
                       /\ opRet.gpu_usage = FreshGpuUsage

\* C12: every write to a slow cache entry (GPU wattage, GPU telemetry, CPU
\* temperature, fans, per-process GPU share, memory descriptor) is made by a
\* collect_detailed_metrics call: get_power_watts, get_power_watts_fast and
\* get_reading write none.
SlowCachesWrittenByCollectionOnly ==
    opWrote # {} => op = "detailed"

\* The age of a cache entry, in whole milliseconds.
AgeMs(entry) == AsMillis(Elapsed(Unwrap(entry).timestamp))

\* The usage a telemetry entry holds, if it holds any.
HeldUsage(entry) ==
    IF IsSome(Unwrap(entry).value) THEN Unwrap(Unwrap(entry).value).usage_percent ELSE None

StaleForDetailed == IsSome(gpu_metrics_cache) /\ AgeMs(gpu_metrics_cache) >= GpuTtlMs
LiveForFast(entry) == IsSome(entry) /\ AgeMs(entry) < FAST_PATH_CACHE_TTL_MS

\* C22: a GPU cache entry whose age lies between the detailed path's TTL for
\* it (500 ms with the direct binding, 2000 ms with the CLI tool) and 10 s is
\* a miss for the detailed path, which queries again and replaces it, but is
\* still returned by the fast path; once its age reaches 10 s the fast path
\* reports None for it.
StaleEntryServesFastPathOnly ==
    /\ (StaleForDetailed /\ LiveForFast(gpu_metrics_cache)) =>
           /\ \A x \in DetailSamples :
                /\ GetGpuMetrics(x).wrote = {"gpu_metrics_cache"}
                /\ Unwrap(GetGpuMetrics(x).cache).timestamp = now
           /\ GetCachedGpuDataForFastPath.gpu_usage = HeldUsage(gpu_metrics_cache)
    /\ (IsSome(gpu_metrics_cache) /\ ~LiveForFast(gpu_metrics_cache)) =>
           GetCachedGpuDataForFastPath.gpu_usage = None
    /\ LiveForFast(gpu_cache) =>
           GetCachedGpuDataForFastPath.gpu_power = Unwrap(gpu_cache).value
    /\ (IsSome(gpu_cache) /\ ~LiveForFast(gpu_cache)) =>
           GetCachedGpuDataForFastPath.gpu_power = None
    /\ (op = "fast" /\ source = "wmi" /\ IsSome(gpu_metrics_cache)) =>
           opRet.gpu_usage = (IF LiveForFast(gpu_metrics_cache)
                              THEN HeldUsage(gpu_metrics_cache) ELSE None)

\* With the direct binding, a fast call was served the usage of a telemetry
\* entry two seconds old, four times the detailed path's TTL.
FastServedStaleTelemetry ==
    /\ op = "fast"
    /\ gpu_source = "NvmlNvidia"
    /\ StaleForDetailed
    /\ AgeMs(gpu_metrics_cache) = 2000
    /\ opRet.gpu_usage = Some(90)

\* The GPU wattages a reading can have obtained: none, or one of the source's.
ObtainedWatts == {None} \cup {Some(w) : w \in GpuMilliwatts}

\* C23: a reading of the composite backend (WmiMonitor) has is_estimated =
\* true exactly when no GPU wattage was obtained for it, and false whenever a
\* GPU wattage is part of its total; either way the total is the CPU estimate
\* plus the base power plus the GPU wattage, if any.
EstimatedIffNoGpuWattage ==
    (op = "reading" /\ source = "wmi") =>
        \E l \in Loads, g \in ObtainedWatts :
            /\ opRet.power = CalculateCpuPower(l) + EstimateBasePower + OptWatts(g)
            /\ opRet.is_estimated = (g = None)
            /\ "gpu_cache" \in opWrote => g = Unwrap(gpu_cache).value
            /\ gpu_source = "None" => g = None

\* A reading that includes 60 W from the GPU: 155 W in all, not estimated.
ReadingWithGpuWattage ==
    /\ op = "reading"
    /\ source = "wmi"
    /\ ~opRet.is_estimated
    /\ opRet.power = 155000

\* A reading whose GPU query failed: 95 W, estimated.
ReadingWithoutGpuWattage ==
    /\ op = "reading"
    /\ source = "wmi"
    /\ gpu_source = "Nvidia"
    /\ opRet.is_estimated
    /\ opRet.power = 95000

\* C25: the memory descriptor is queried from the external source until a
\* query succeeds; from the first successful read on the stored value is
\* returned without another query; and a failed or timed-out query does not
\* become the permanently cached value.  (In a state: what the permanent
\* cache holds is a successful read, and a collection that made no memory
\* query found one stored.)
MemoryCacheHoldsFirstSuccess ==
    /\ IsSome(memory_info_cache) => IsSome(Unwrap(memory_info_cache))
    /\ (op = "detailed" /\ source = "wmi" /\ "memory_info_cache" \notin opWrote) =>
           IsSome(memory_info_cache) /\ IsSome(Unwrap(memory_info_cache))

\* A successful read, once stored, stays: no later call replaces it.
StoredMemoryInfoStays ==
    [][(IsSome(memory_info_cache) /\ IsSome(Unwrap(memory_info_cache)))
           => memory_info_cache' = memory_info_cache]_vars

\* An entry the next request for its metric will be served from.
Hit(entry, ttl) == IsSome(Lookup(entry, ttl))

\* What one call of the composite backend leaves of the entries it did not
\* refresh: an entry that was a hit for its metric, and every entry of a
\* metric the call does not collect.
RefreshStep ==
    source = "wmi" =>
        /\ op' = "fast" => cacheVars' = cacheVars
        /\ op' = "reading" =>
             /\ <<gpu_metrics_cache, cpu_temp_cache, gpu_process_cache, fan_cache,
                  memory_info_cache>>'
                    = <<gpu_metrics_cache, cpu_temp_cache, gpu_process_cache, fan_cache,
                        memory_info_cache>>
             /\ Hit(gpu_cache, GpuPowerTtlMs) => gpu_cache' = gpu_cache
        /\ op' = "detailed" =>
             /\ gpu_cache' = gpu_cache
             /\ Hit(gpu_metrics_cache, GpuTtlMs) => gpu_metrics_cache' = gpu_metrics_cache
             /\ Hit(gpu_process_cache, GpuTtlMs) => gpu_process_cache' = gpu_process_cache
             /\ Hit(cpu_temp_cache, CpuTempTtlMs) => cpu_temp_cache' = cpu_temp_cache
             /\ Hit(fan_cache, FanTtlMs) => fan_cache' = fan_cache
             /\ IsSome(memory_info_cache) => memory_info_cache' = memory_info_cache
             /\ "fan_cache" \notin opWrote' => fan_cache' = fan_cache

\* C27: refreshing one metric's cache entry leaves every other metric's entry
\* (value and capture time) as it was; a refresh of the GPU telemetry does not
\* change the GPU-wattage entry, and a refresh of the CPU temperature or of
\* the fans changes no GPU entry.
RefreshLeavesOtherEntries == [][RefreshStep]_vars

\* A collection refreshed the CPU temperature and the GPU telemetry two seconds
\* after a reading stored the GPU wattage: the wattage entry is the reading's.
WattageEntrySurvivedRefresh ==
    /\ op = "detailed"
    /\ {"cpu_temp_cache", "gpu_metrics_cache"} \subseteq opWrote
    /\ IsSome(gpu_cache)
    /\ AgeMs(gpu_cache) = 2000
    /\ AgeMs(cpu_temp_cache) = 0

\* What a backend's get_power_watts may return: a failure, or watts.
GetPowerWattsResults ==
    {[ok |-> FALSE, power |-> 0]} \cup {[ok |-> TRUE, power |-> p] : p \in {0, 45000}}

\* The default fast read on a get_power_watts result r.
DefaultFastOn(r) ==
    LET f == PowerSourceDefaultFast(r)
    IN  /\ f.ok = r.ok
        /\ r.ok => f = [ok |-> TRUE, power |-> r.power, cpu |-> 0, gpu_usage |-> None,
                        gpu_power |-> None]

DefaultsOfEstimator ==
    /\ \A r \in GetPowerWattsResults : DefaultFastOn(r)
    /\ (source = "estimator" /\ op = "fast") =>
          \E x \in PowerSamples :
              /\ CalculateEstimatedPower(x.load) = opRet.power
              /\ DefaultFastOn(EstimationGetPowerWatts(x))
              /\ opRet = PowerSourceDefaultFast(EstimationGetPowerWatts(x))
    /\ (source = "estimator" /\ op = "detailed") =>
          /\ ~opRet.ok
          /\ opRet.err = "HardwareNotSupported"
          /\ opExt = {}
          /\ opWrote = {}

DefaultDetailedStep ==
    (source = "estimator" /\ op' = "detailed") =>
        UNCHANGED <<startupVars, now, fieldVars, cacheVars, raplVars, cmdVars, loopVars,
                    moreVars>>

\* C29: for a backend that overrides neither, get_power_watts_fast returns the
\* backend's get_power_watts value with CPU usage 0 and no GPU usage or GPU
\* wattage, failing exactly when get_power_watts fails, and
\* collect_detailed_metrics returns a HardwareNotSupported error and changes
\* no state.
DefaultsFallBackToPowerWatts == []DefaultsOfEstimator /\ [][DefaultDetailedStep]_vars

\* The estimator backend answered a fast read with its wattage, through the
\* default.
EstimatorFastByDefault ==
    /\ source = "estimator"
    /\ op = "fast"
    /\ opRet.ok
    /\ opRet.power > 0
    /\ opRet.cpu = 0
    /\ opRet.gpu_power = None

\* C31: when a GPU source is available and its queries succeed, the fast
\* path comes to report the GPU wattage that get_power_watts and get_reading
\* include, for the NVML source as for the CLI sources: once a reading has
\* obtained a GPU wattage, the GPU-wattage entry the fast path reads holds
\* one.
FastPathSeesWattageOfReading ==
    (source = "wmi" /\ op = "reading" /\ ~opRet.is_estimated) => IsSome(FreshGpuPower)

\* The same for the CLI sources alone.
FastPathSeesCliWattage ==
    (source = "wmi" /\ op = "reading" /\ ~opRet.is_estimated /\ ~NvmlUsable)
        => IsSome(FreshGpuPower)

\* C37: the backend-level is_estimated flag that every critical snapshot
\* publishes agrees with the is_estimated flag of the readings the backend
\* produces at that time: a reading is flagged estimated, no GPU wattage
\* obtained, exactly when the snapshot's flag is true.
SnapshotFlagAgreesWithReading ==
    (source = "wmi" /\ op = "reading") => opRet.is_estimated = IsEstimated

\* One direction: under a backend flagged estimated every reading is.
EstimatedBackendReadsEstimated ==
    (source = "wmi" /\ op = "reading" /\ IsEstimated) => opRet.is_estimated

(***************************************************************************)
(* The two periodic tasks: main.rs critical_monitoring_loop (fast) and     *)
(* detailed_monitoring_loop (slow).  state.monitor is a tokio Mutex; a     *)
(* task at a `lock().await` stays there until the lock is free.  Energies  *)
(* are in millijoules (milliwatts times milliseconds, over 1000).          *)
(***************************************************************************)
MaxTicks == 3
TickUs == 1000000
MaxSeconds == 2
PersistEvery == 10

LoopBackends == {"wmi", "hwmon", "estimator"}
LoopGpuChoices == {<<"Nvidia", FALSE>>}

\* One collection's queries all answer or all time out.
LoopDetailSamples ==
    {x \in DetailSamples : (x.cli_metrics.kind = "ok") = (x.memory.kind = "ok")
                           \/ source # "wmi"}

LoopsInit ==
    /\ \E b \in LoopBackends : StartupDone(b)
    /\ now = 0
    /\ IF source = "wmi"
       THEN /\ \E g \in LoopGpuChoices : gpu_source = g[1] /\ nvml_state = g[2]
            /\ is_laptop \in LaptopChoices
            /\ cpu_tdp_estimate \in TdpChoices
       ELSE FieldsParked
    /\ CachesEmpty
    /\ OpParked
    /\ RaplParked
    /\ CmdParked
    /\ LoopsParked
    /\ MoreParked

restVars == <<startupVars, fieldVars, raplVars, cmdVars, moreVars>>

\* interval.tick().await returns; the refresh rate is read from the config.
FastTick ==
    /\ fpc = "tick"
    /\ READING_COUNT < MaxTicks
    /\ fpc' = "read"
    /\ tickExt' = {}
    /\ tickFailed' = FALSE
    /\ cumBefore' = cumulative_wh
    /\ UNCHANGED <<failedTicks, restVars, now, cacheVars, opVars, spc, monitor_lock, READING_COUNT,
                   last_reading_time, cumulative_wh, critical_metrics_cache,
                   detailed_metrics_cache, reading, energy_wh,
                   should_collect_extended, emitted, db_rows>>

FastReadKeepsLast ==
    /\ fpc = "read"
    /\ monitor_lock = "free"
    /\ \E x \in PowerSamples :
         LET r == GetPowerWattsFast(x)
         IN  /\ Stores(r)
             /\ reading' = IF r.ret.ok
                           THEN [power |-> r.ret.power, cpu |-> r.ret.cpu,
                                 gpu_usage |-> r.ret.gpu_usage,
                                 gpu_power |-> r.ret.gpu_power]
                           ELSE reading
             /\ tickFailed' = ~r.ret.ok
             /\ failedTicks' = IF r.ret.ok THEN failedTicks ELSE failedTicks + 1
             /\ tickExt' = tickExt \cup r.ext
    /\ fpc' = "account"
    /\ UNCHANGED <<restVars, now, opVars, spc, monitor_lock, READING_COUNT,
                   last_reading_time, cumulative_wh, critical_metrics_cache,
                   detailed_metrics_cache, energy_wh, should_collect_extended,
                   cumBefore, emitted, db_rows>>

\* { let monitor = state.monitor.lock().await;
\*   monitor.get_power_watts_fast().unwrap_or((0.0, 0.0, None, None)) }
FastRead ==
    /\ fpc = "read"
    /\ monitor_lock = "free"
    /\ \E x \in PowerSamples :
         LET r == GetPowerWattsFast(x)
         IN  /\ Stores(r)
             /\ reading' = IF r.ret.ok
                           THEN [power |-> r.ret.power, cpu |-> r.ret.cpu,
                                 gpu_usage |-> r.ret.gpu_usage,
                                 gpu_power |-> r.ret.gpu_power]
                           ELSE NoReading
             /\ tickFailed' = ~r.ret.ok
             /\ failedTicks' = IF r.ret.ok THEN failedTicks ELSE failedTicks + 1
             /\ tickExt' = tickExt \cup r.ext
    /\ fpc' = "account"
    /\ UNCHANGED <<restVars, now, opVars, spc, monitor_lock, READING_COUNT, last_reading_time,
                   cumulative_wh, critical_metrics_cache, detailed_metrics_cache,
                   energy_wh, should_collect_extended, cumBefore, emitted, db_rows>>

\* energy_wh = power_watts * elapsed_hours; app_state.cumulative_wh += energy_wh.
FastAccount ==
    /\ fpc = "account"
    /\ LET elapsed_ms == AsMillis(Elapsed(last_reading_time))
           e == (reading.power * elapsed_ms) \div 1000
       IN  /\ energy_wh' = e
           /\ cumulative_wh' = cumulative_wh + e
    /\ last_reading_time' = now
    /\ fpc' = "source"
    /\ UNCHANGED <<failedTicks, restVars, now, cacheVars, opVars, spc, monitor_lock, READING_COUNT,
                   critical_metrics_cache, detailed_metrics_cache, reading,
                   should_collect_extended, tickExt, tickFailed, cumBefore, emitted,
                   db_rows>>

\* The store done field by field, the power first: the other fields are the
\* previous snapshot's until the rest is written.
FastPublishPowerFirst ==
    /\ fpc = "source"
    /\ monitor_lock = "free"
    /\ critical_metrics_cache' =
           IF IsSome(critical_metrics_cache)
           THEN Some([Unwrap(critical_metrics_cache) EXCEPT !.power_watts = reading.power])
           ELSE Some([power_watts |-> reading.power, cpu_usage_percent |-> reading.cpu,
                      gpu_usage_percent |-> reading.gpu_usage,
                      gpu_power_watts |-> reading.gpu_power,
                      cumulative_wh |-> cumulative_wh, is_estimated |-> IsEstimated])
    /\ READING_COUNT' = READING_COUNT + 1
    /\ fpc' = IF READING_COUNT % PersistEvery = 0 THEN "persist" ELSE "emit"
    /\ UNCHANGED <<failedTicks, restVars, now, cacheVars, opVars, spc, monitor_lock,
                   last_reading_time, cumulative_wh, detailed_metrics_cache, reading,
                   energy_wh, should_collect_extended, tickExt, tickFailed, cumBefore,
                   emitted, db_rows>>

\* The source name and is_estimated under the monitor lock, the snapshot stored
\* in critical_metrics_cache, READING_COUNT.fetch_add(1).
FastPublish ==
    /\ fpc = "source"
    /\ monitor_lock = "free"
    /\ critical_metrics_cache' =
           Some([power_watts |-> reading.power, cpu_usage_percent |-> reading.cpu,
                 gpu_usage_percent |-> reading.gpu_usage,
                 gpu_power_watts |-> reading.gpu_power,
                 cumulative_wh |-> cumulative_wh, is_estimated |-> IsEstimated])
    /\ READING_COUNT' = READING_COUNT + 1
    /\ fpc' = IF READING_COUNT % PersistEvery = 0 THEN "persist" ELSE "emit"
    /\ UNCHANGED <<failedTicks, restVars, now, cacheVars, opVars, spc, monitor_lock,
                   last_reading_time, cumulative_wh, detailed_metrics_cache, reading,
                   energy_wh, should_collect_extended, tickExt, tickFailed, cumBefore,
                   emitted, db_rows>>

\* if count % 10 == 0 { monitor.lock; if let Ok(reading) = monitor.get_reading()
\*                      { db.insert_reading(&reading) } }
FastPersist ==
    /\ fpc = "persist"
    /\ monitor_lock = "free"
    /\ \E x \in PowerSamples :
         LET r == GetReading(x)
         IN  /\ Stores(r)
             /\ tickExt' = tickExt \cup r.ext
             /\ db_rows' = IF r.ret.ok THEN db_rows + 1 ELSE db_rows
    /\ fpc' = "emit"
    /\ UNCHANGED <<failedTicks, restVars, now, opVars, spc, monitor_lock, READING_COUNT,
                   last_reading_time,
                   cumulative_wh, critical_metrics_cache, detailed_metrics_cache,
                   reading, energy_wh, should_collect_extended, tickFailed, cumBefore,
                   emitted>>

\* app.emit("critical-update", critical_metrics), and round the loop.
FastEmit ==
    /\ fpc = "emit"
    /\ emitted' = emitted + 1
    /\ fpc' = "tick"
    /\ UNCHANGED <<failedTicks, restVars, now, cacheVars, opVars, spc, monitor_lock, READING_COUNT,
                   last_reading_time, cumulative_wh, critical_metrics_cache,
                   detailed_metrics_cache, reading, energy_wh,
                   should_collect_extended, tickExt, tickFailed, cumBefore, db_rows>>

\* The slow tick asking for the extended metrics on every cycle.
SlowTickAlwaysExtended ==
    /\ spc = "tick"
    /\ should_collect_extended' = TRUE
    /\ spc' = "lock"
    /\ UNCHANGED <<failedTicks, restVars, now, cacheVars, opVars, fpc, monitor_lock, READING_COUNT,
                   last_reading_time, cumulative_wh, critical_metrics_cache,
                   detailed_metrics_cache, reading, energy_wh, tickExt, tickFailed,
                   cumBefore, emitted, db_rows>>

\* The slow tick: the config, then should_collect_extended from the last snapshot.
SlowTick ==
    /\ spc = "tick"
    /\ should_collect_extended' =
           IF IsSome(critical_metrics_cache)
           THEN LET cm == Unwrap(critical_metrics_cache)
                IN  \/ cm.cpu_usage_percent >= extended_metrics_threshold
                    \/ /\ IsSome(cm.gpu_usage_percent)
                       /\ Unwrap(cm.gpu_usage_percent) >= extended_metrics_threshold
           ELSE FALSE
    /\ spc' = "lock"
    /\ UNCHANGED <<failedTicks, restVars, now, cacheVars, opVars, fpc, monitor_lock, READING_COUNT,
                   last_reading_time, cumulative_wh, critical_metrics_cache,
                   detailed_metrics_cache, reading, energy_wh, tickExt, tickFailed,
                   cumBefore, emitted, db_rows>>

\* let monitor = state.monitor.lock().await;
SlowLock ==
    /\ spc = "lock"
    /\ monitor_lock = "free"
    /\ monitor_lock' = "slow"
    /\ spc' = "collect"
    /\ UNCHANGED <<failedTicks, restVars, now, cacheVars, opVars, fpc, READING_COUNT,
                   last_reading_time, cumulative_wh, critical_metrics_cache,
                   detailed_metrics_cache, reading, energy_wh,
                   should_collect_extended, tickExt, tickFailed, cumBefore, emitted,
                   db_rows>>

\* monitor.collect_detailed_metrics(..) called in place, the guard alive; on Err
\* the fallback snapshot; then the guard drops, the snapshot is stored and emitted.
SlowCollect ==
    /\ spc = "collect"
    /\ monitor_lock = "slow"
    /\ \E x \in LoopDetailSamples :
         LET r == CollectDetailedMetrics(x, should_collect_extended)
         IN  /\ Stores(r)
             /\ detailed_metrics_cache' =
                    Some(IF r.ret.ok THEN r.ret
                         ELSE [ok |-> TRUE, gpu |-> None, fans |-> None,
                               voltages |-> None, extended_collected |-> FALSE])
    /\ monitor_lock' = "free"
    /\ spc' = "tick"
    /\ UNCHANGED <<failedTicks, restVars, now, opVars, fpc, READING_COUNT, last_reading_time,
                   cumulative_wh,
                   critical_metrics_cache, reading, energy_wh,
                   should_collect_extended, tickExt, tickFailed, cumBefore, emitted,
                   db_rows>>

\* A second passes.
Pass ==
    /\ now < MaxSeconds * TickUs
    /\ now' = now + TickUs
    /\ UNCHANGED <<restVars, cacheVars, opVars, loopVars>>

LoopsNext ==
    \/ FastTick
    \/ FastRead
    \/ FastAccount
    \/ FastPublish
    \/ FastPersist
    \/ FastEmit
    \/ SlowTick
    \/ SlowLock
    \/ SlowCollect
    \/ Pass

SpecLoops == LoopsInit /\ [][LoopsNext]_vars

\* The tokio mutex hands the lock over in arrival order, every step of a task
\* returns, and a collection ends (each external call has its timeout).
SpecLoopsFair ==
    /\ SpecLoops
    /\ WF_vars(FastAccount)
    /\ SF_vars(FastPublish)
    /\ SF_vars(FastPersist)
    /\ WF_vars(FastEmit)
    /\ WF_vars(SlowCollect)

\* C2: while the slow task is inside a detailed collection, a fast tick gets its
\* sample without waiting for the collection to finish: the fast task is never
\* at a monitor lock that the slow task holds across the blocking call.
FastNeverWaitsOnCollection ==
    ~(/\ spc = "collect"
      /\ monitor_lock = "slow"
      /\ fpc \in {"read", "source", "persist"})

\* C3: no tick of the fast task, whatever its number, executes a subprocess or
\* another blocking external query (a management-API call); those happen only
\* inside the slow task's collection.
FastTickMakesNoExternalCall ==
    tickExt \cap {"subprocess", "nvml", "pdh"} = {}


\* The snapshot of a tick whose read failed.
ZeroSnapshot ==
    [power_watts |-> 0, cpu_usage_percent |-> 0, gpu_usage_percent |-> None,
     gpu_power_watts |-> None, cumulative_wh |-> cumBefore,
     is_estimated |-> IsEstimated]

FailedTickIsZero ==
    tickFailed =>
        /\ reading = NoReading
        /\ fpc # "account" => energy_wh = 0 /\ cumulative_wh = cumBefore
        /\ fpc \in {"persist", "emit", "tick"} =>
               critical_metrics_cache = Some(ZeroSnapshot)
        /\ fpc = "tick" => emitted = READING_COUNT

\* C9: when the fast read fails on a tick, the tick uses power 0, CPU 0 and no
\* GPU data, adds no energy to cumulative_wh, still publishes its snapshot, and
\* the loop comes back to its next tick: read failures never end the loop.
FailedReadCostsOneZeroTick ==
    /\ []FailedTickIsZero
    /\ (tickFailed /\ fpc = "account") ~> (tickFailed /\ fpc = "tick")

FailedTicksPublished ==
    /\ failedTicks = 2
    /\ fpc = "tick"
    /\ emitted = 2
    /\ now > 0

\* Every GPU query of the sample failed: NVML gave nothing and the CLI run
\* ended with a non-zero exit, unparsable output or a timeout.
GpuQueriesFailed(x) == ~IsSome(x.nvml_metrics) /\ x.cli_metrics.kind # "ok"

CollectReturnsOk ==
    source # "estimator" =>
        \A x \in LoopDetailSamples, e \in BOOLEAN :
            LET r == CollectDetailedMetrics(x, e)
            IN  /\ r.ret.ok
                /\ r.ret.extended_collected = e
                /\ (GpuQueriesFailed(x) /\ "gpu_metrics_cache" \in r.wrote) =>
                       /\ r.ret.gpu = None
                       /\ Unwrap(r.caches.gpu_metrics_cache).value = None

SlowTickPublishes ==
    (spc = "collect" /\ spc' # "collect") =>
        /\ spc' = "tick"
        /\ monitor_lock' = "free"
        /\ IsSome(detailed_metrics_cache')
        /\ Unwrap(detailed_metrics_cache').ok

GetCriticalMetrics ==
    /\ observed' = Some([snap |-> critical_metrics_cache, tick |-> READING_COUNT])
    /\ UNCHANGED <<startupVars, now, fieldVars, cacheVars, opVars, raplVars, cmdVars,
                   loopVars, baselineVars, estVars, gpuProcVars, configVars, entryVars, lateVars>>

ReadersNext ==
    \/ LoopsNext
    \/ GetCriticalMetrics

SpecReaders == LoopsInit /\ [][ReadersNext]_vars

\* The snapshot the tick in progress builds from its own values.
TickSnapshot ==
    [power_watts |-> reading.power, cpu_usage_percent |-> reading.cpu,
     gpu_usage_percent |-> reading.gpu_usage, gpu_power_watts |-> reading.gpu_power,
     cumulative_wh |-> cumulative_wh, is_estimated |-> IsEstimated]

\* The cache is empty before the first tick's store and afterwards holds the
\* whole snapshot of the last tick that stored; a call that returned after
\* the same tick as the cache's returned that snapshot.
CacheHoldsOneTick ==
    /\ critical_metrics_cache = None <=> READING_COUNT = 0
    /\ (READING_COUNT > 0 /\ fpc \in {"persist", "emit", "tick"}) =>
           critical_metrics_cache = Some(TickSnapshot)
    /\ IsSome(observed) =>
           /\ Unwrap(observed).snap = None <=> Unwrap(observed).tick = 0
           /\ Unwrap(observed).tick <= READING_COUNT
           /\ Unwrap(observed).tick = READING_COUNT =>
                  Unwrap(observed).snap = critical_metrics_cache

\* The cache changes only by one tick's store of its whole snapshot, and what
\* a later call returns is never of an earlier tick.
CacheReplacedWhole ==
    /\ critical_metrics_cache' # critical_metrics_cache =>
           /\ fpc = "source"
           /\ READING_COUNT' = READING_COUNT + 1
           /\ critical_metrics_cache' = Some(TickSnapshot)
    /\ READING_COUNT' >= READING_COUNT
    /\ (IsSome(observed) /\ IsSome(observed')) =>
           Unwrap(observed').tick >= Unwrap(observed).tick

\* C13: a reader of the critical-metrics cache gets None (before the first
\* tick) or one complete snapshot built by a single tick, never fields of two
\* ticks, and what successive reads return is in tick order.
ReadersSeeWholeSnapshotsInOrder ==
    /\ []CacheHoldsOneTick
    /\ [][CacheReplacedWhole]_vars

\* A reader holds the second tick's snapshot while the cache has the third's.
ReaderHoldsEarlierTick ==
    /\ IsSome(observed)
    /\ Unwrap(observed).tick = 2
    /\ READING_COUNT = 3
    /\ Unwrap(observed).snap # critical_metrics_cache

(***************************************************************************)
(* BaselineDetector: hardware/baseline.rs.  Watts are whole numbers; the   *)
(* confidence of a detection, a float nobody compares, is left out.        *)
(***************************************************************************)
BASELINE_PERCENTILE_PCT == 5
MinDetectSamples == 10

\* The window sizes tried: none, one, a few, just enough to detect, the
\* size of the recorded run, the default.
WindowSizes == {0, 1, 3, MinDetectSamples, 20, DEFAULT_SAMPLE_WINDOW}
MaxAnyWindow == 10
MaxFed == 24
AnyWatts == {40, 120}
ManualWatts == {50, 75}
CurrentWatts == {40, 50, 120, 150}
DurationHours == {1, 2}

\* The recorded run: ten idle samples 45 + (i % 5), then ten at 100 + 5 i,
\* and round again.
Recorded(i) ==
    LET j == i % 20
    IN  IF j < 10 THEN 45 + (j % 5) ELSE 100 + (j - 10) * 5

\* sorted.sort_by(partial_cmp): ascending order, by insertion.
RECURSIVE InsertAsc(_, _)
InsertAsc(w, sorted) ==
    IF sorted = <<>> THEN <<w>>
    ELSE IF w <= Head(sorted) THEN <<w>> \o sorted
    ELSE <<Head(sorted)>> \o InsertAsc(w, Tail(sorted))

RECURSIVE SortAsc(_)
SortAsc(window) ==
    IF window = <<>> THEN <<>> ELSE InsertAsc(Head(window), SortAsc(Tail(window)))

\* ((sorted.len() as f64) * BASELINE_PERCENTILE).floor() as usize
PercentileIndex(n) == (n * BASELINE_PERCENTILE_PCT) \div 100

\* get_baseline with the detection taking precedence over the override.
GetBaselineDetectedFirst ==
    IF IsSome(last_detected) THEN last_detected ELSE manual_baseline

\* self.manual_baseline.or(self.last_detected)
GetBaseline == IF IsSome(manual_baseline) THEN manual_baseline ELSE last_detected

\* calculate_surplus without the max(0.0).
CalculateSurplusSigned(current_watts) ==
    IF IsSome(GetBaseline)
    THEN LET surplus == current_watts - Unwrap(GetBaseline)
         IN  <<surplus, surplus > 0>>
    ELSE <<0, FALSE>>

\* calculate_surplus: (surplus.max(0.0), surplus > 0.0), or (0.0, false).
CalculateSurplus(current_watts) ==
    IF IsSome(GetBaseline)
    THEN LET surplus == current_watts - Unwrap(GetBaseline)
         IN  <<IF surplus > 0 THEN surplus ELSE 0, surplus > 0>>
    ELSE <<0, FALSE>>

\* calculate_surplus_wh: surplus * duration_hours
CalculateSurplusWh(power_watts, duration_hours) ==
    CalculateSurplus(power_watts)[1] * duration_hours

BaselineInit ==
    /\ StartupDone("wmi")
    /\ now = 0
    /\ FieldsParked
    /\ CachesEmpty
    /\ OpParked
    /\ RaplParked
    /\ CmdParked
    /\ LoopsParked
    /\ ReaderParked
    /\ EstimatorParked
    /\ GpuProcsParked
    /\ ConfigParked
    /\ EntryParked
    /\ LateParked
    /\ \E size \in WindowSizes : BaselineConstructed(size)
    /\ feed \in (IF max_samples <= MaxAnyWindow THEN {"any", "recorded"} ELSE {"recorded"})

notBaseline == <<startupVars, now, fieldVars, cacheVars, opVars, raplVars, cmdVars,
                 loopVars, readerVars, estVars, gpuProcVars, configVars, entryVars, lateVars>>

\* The call's record.
Called(name, arg, ret) ==
    /\ bop' = name
    /\ barg' = arg
    /\ bret' = ret
    /\ pinned' = IF name = "set_manual_baseline" THEN Some(arg[1])
                 ELSE IF name = "clear_manual_baseline" THEN None
                 ELSE pinned
    /\ detected' = IF name = "detect_baseline" /\ ret # None
                   THEN Some(ret[1].detected_watts)
                   ELSE IF name = "reset" THEN None
                   ELSE detected

\* add_sample: pop_front once the window is at max_samples (nothing to pop
\* from an empty window), then push_back.
AddSample ==
    /\ \E w \in (IF feed = "any" THEN AnyWatts ELSE {Recorded(fed)}) :
         /\ feed = "recorded" => fed < MaxFed
         /\ samples' = IF Len(samples) >= max_samples /\ samples # <<>>
                       THEN Append(Tail(samples), w)
                       ELSE Append(samples, w)
         /\ Called("add_sample", <<w>>, <<>>)
    /\ fed' = IF feed = "recorded" THEN fed + 1 ELSE fed
    /\ kept' = IF feed = "recorded" THEN kept + 1 ELSE kept
    /\ UNCHANGED <<max_samples, manual_baseline, last_detected, feed, notBaseline>>

SetManualBaseline ==
    /\ \E w \in ManualWatts :
         /\ manual_baseline' = Some(w)
         /\ Called("set_manual_baseline", <<w>>, <<>>)
    /\ UNCHANGED <<samples, max_samples, last_detected, feed, fed, kept, notBaseline>>

ClearManualBaseline ==
    /\ manual_baseline' = None
    /\ Called("clear_manual_baseline", <<>>, <<>>)
    /\ UNCHANGED <<samples, max_samples, last_detected, feed, fed, kept, notBaseline>>

\* detect_baseline taking the median in place of the 5th percentile.
DetectBaselineMedian ==
    /\ IF Len(samples) < MinDetectSamples
       THEN /\ Called("detect_baseline", <<>>, None)
            /\ UNCHANGED last_detected
       ELSE LET sorted == SortAsc(samples)
                baseline == sorted[(Len(sorted) \div 2) + 1]
            IN  /\ last_detected' = Some(baseline)
                /\ Called("detect_baseline", <<>>,
                          Some([detected_watts |-> baseline,
                                sample_count |-> Len(samples)]))
    /\ UNCHANGED <<samples, max_samples, manual_baseline, feed, fed, kept, notBaseline>>

\* detect_baseline content with five samples.
DetectBaselineFromFive ==
    /\ IF Len(samples) < 5
       THEN /\ Called("detect_baseline", <<>>, None)
            /\ UNCHANGED last_detected
       ELSE LET sorted == SortAsc(samples)
                baseline == sorted[PercentileIndex(Len(sorted)) + 1]
            IN  /\ last_detected' = Some(baseline)
                /\ Called("detect_baseline", <<>>,
                          Some([detected_watts |-> baseline,
                                sample_count |-> Len(samples)]))
    /\ UNCHANGED <<samples, max_samples, manual_baseline, feed, fed, kept, notBaseline>>

\* detect_baseline: None under 10 samples; else the element of the sorted copy
\* at the percentile index, kept as last_detected.
DetectBaseline ==
    /\ IF Len(samples) < MinDetectSamples
       THEN /\ Called("detect_baseline", <<>>, None)
            /\ UNCHANGED last_detected
       ELSE LET sorted == SortAsc(samples)
                index == PercentileIndex(Len(sorted))
                baseline == IF index + 1 <= Len(sorted) THEN sorted[index + 1]
                            ELSE sorted[1]
            IN  /\ last_detected' = Some(baseline)
                /\ Called("detect_baseline", <<>>,
                          Some([detected_watts |-> baseline,
                                sample_count |-> Len(samples)]))
    /\ UNCHANGED <<samples, max_samples, manual_baseline, feed, fed, kept, notBaseline>>

SurplusCalls ==
    /\ \/ \E c \in CurrentWatts :
            Called("calculate_surplus", <<c>>, CalculateSurplus(c))
       \/ \E c \in CurrentWatts, h \in DurationHours :
            Called("calculate_surplus_wh", <<c, h>>, <<CalculateSurplusWh(c, h)>>)
    /\ UNCHANGED <<samples, max_samples, manual_baseline, last_detected, feed, fed,
                   kept, notBaseline>>

\* reset that also drops the manual override.
ResetAll ==
    /\ samples' = <<>>
    /\ last_detected' = None
    /\ manual_baseline' = None
    /\ kept' = 0
    /\ Called("reset", <<>>, <<>>)
    /\ UNCHANGED <<max_samples, feed, fed, notBaseline>>

\* reset: samples.clear(); last_detected = None
Reset ==
    /\ samples' = <<>>
    /\ last_detected' = None
    /\ kept' = 0
    /\ Called("reset", <<>>, <<>>)
    /\ UNCHANGED <<max_samples, manual_baseline, feed, fed, notBaseline>>

BaselineNext ==
    \/ AddSample
    \/ SetManualBaseline
    \/ ClearManualBaseline
    \/ DetectBaseline
    \/ SurplusCalls
    \/ Reset

SpecBaseline == BaselineInit /\ [][BaselineNext]_vars

\* The last n of the samples fed so far from the recorded run, oldest first.
LastFed(n) == [i \in 1..n |-> Recorded(fed - n + i - 1)]

Min(a, b) == IF a <= b THEN a ELSE b

WindowIsMostRecent(capacity) ==
    /\ Len(samples) <= capacity
    /\ feed = "recorded" => samples = LastFed(Min(kept, capacity))

\* C14: for every capacity passed to with_window_size and every sequence of
\* add_sample calls the window never holds more than capacity samples, and
\* once full it holds exactly the most recent capacity samples in insertion
\* order, the oldest being the one evicted.
WindowHoldsMostRecentCapacity == WindowIsMostRecent(max_samples)

\* The same for the capacities from one up; a window built with capacity zero
\* holds one sample from the first add_sample on.
WindowHoldsMostRecentFromOne ==
    WindowIsMostRecent(IF max_samples = 0 THEN 1 ELSE max_samples)

\* A step that is a detect_baseline call on a window of at least / under ten.
DetectedStep == bop' = "detect_baseline" /\ Len(samples) >= MinDetectSamples
RefusedStep == bop' = "detect_baseline" /\ Len(samples) < MinDetectSamples

Smaller(window, w) == {i \in 1..Len(window) : window[i] < w}
NotLarger(window, w) == {i \in 1..Len(window) : window[i] <= w}

FifthPercentileStep ==
    DetectedStep =>
        LET n == Len(samples)
            d == bret'[1].detected_watts
        IN  /\ \E i \in 1..n : samples[i] = d
            /\ Cardinality(Smaller(samples, d)) <= n \div 20
            /\ Cardinality(NotLarger(samples, d)) > n \div 20
            /\ samples' = samples
            /\ (n = 20 /\ samples = [i \in 1..20 |-> Recorded(i - 1)]) => d < 60

DetectionStep ==
    /\ RefusedStep =>
         /\ bret' = None
         /\ last_detected' = last_detected
         /\ manual_baseline' = manual_baseline
         /\ samples' = samples
    /\ DetectedStep =>
         /\ Len(bret') = 1
         /\ bret'[1].sample_count = Len(samples')
         /\ last_detected' = Some(bret'[1].detected_watts)

\* C16: detect_baseline returns None whenever the window holds fewer than 10
\* samples, and then leaves the last detected baseline, the manual override
\* and the window as they were; with 10 or more it returns a detection whose
\* sample_count is the window length and records its detected_watts as the
\* last detected baseline.
DetectionNeedsTenSamples == [][DetectionStep]_vars

\* detect_baseline has refused a window of nine with a manual override set.
RefusedAtNine ==
    /\ bop = "detect_baseline"
    /\ bret = None
    /\ Len(samples) = 9
    /\ manual_baseline = Some(50)
    /\ last_detected = None

\* C17: after set_manual_baseline(w), get_baseline returns w through any
\* add_sample, detect_baseline and reset calls until clear_manual_baseline;
\* after clear_manual_baseline it returns the last auto-detected value, or
\* None if there is none.
ManualBaselineTakesPrecedence ==
    GetBaseline = (IF IsSome(pinned) THEN pinned ELSE detected)

\* A detection of 45 W was made under a manual baseline of 50 W.
DetectedUnderManual ==
    /\ bop = "detect_baseline"
    /\ pinned = Some(50)
    /\ last_detected = Some(45)
    /\ GetBaseline = Some(50)

\* The override was cleared with a detection on record.
ClearedBackToDetected ==
    /\ bop = "clear_manual_baseline"
    /\ detected = Some(45)
    /\ GetBaseline = Some(45)

detector == <<samples, max_samples, manual_baseline, last_detected>>

\* What the statement gives for c watts over h hours in the state the call is
\* made in.
StatedSurplus(c) ==
    IF IsSome(GetBaseline) /\ c > Unwrap(GetBaseline)
    THEN <<c - Unwrap(GetBaseline), TRUE>>
    ELSE <<0, FALSE>>

SurplusStep ==
    /\ bop' = "calculate_surplus" =>
         /\ bret' = StatedSurplus(barg'[1])
         /\ detector' = detector
    /\ bop' = "calculate_surplus_wh" =>
         /\ bret' = <<StatedSurplus(barg'[1])[1] * barg'[2]>>
         /\ detector' = detector
    /\ GetBaseline = Some(50) =>
         /\ CalculateSurplus(120) = <<70, TRUE>>
         /\ CalculateSurplus(40) = <<0, FALSE>>
         /\ CalculateSurplusWh(150, 1) = 100
         /\ CalculateSurplusWh(40, 1) = 0
    /\ GetBaseline = None =>
         \A c \in CurrentWatts, h \in DurationHours :
             CalculateSurplus(c) = <<0, FALSE>> /\ CalculateSurplusWh(c, h) = 0

\* C18: with a baseline b in effect calculate_surplus(c) returns (c - b, true)
\* when c > b and (0, false) when c <= b, and calculate_surplus_wh(c, h)
\* returns that surplus times h (baseline 50: 120 gives (70, true), 40 gives
\* (0, false), 150 W for 1 h gives 100 Wh, 40 W for 1 h gives 0); with no
\* baseline both return zero and the flag is false; neither call changes the
\* detector.
SurplusIsExcessOverBaseline == [][SurplusStep]_vars

\* 120 W was measured against a baseline of 50 W: 70 W of surplus.
SeventyOverFifty ==
    /\ bop = "calculate_surplus"
    /\ barg = <<120>>
    /\ bret = <<70, TRUE>>
    /\ GetBaseline = Some(50)

ResetStep ==
    bop' = "reset" =>
        /\ samples' = <<>>
        /\ Len(samples') = 0
        /\ last_detected' = None
        /\ manual_baseline' = manual_baseline
        /\ max_samples' = max_samples
        /\ GetBaseline' = manual_baseline

\* C19: reset empties the sample window and clears the last auto-detected
\* baseline, and leaves the manual override and the capacity as they were:
\* after it get_baseline returns the manual value if one is set and None
\* otherwise, and sample_count is 0.
ResetKeepsManualOverride == [][ResetStep]_vars

\* A detector with a manual baseline of 50 W, ten or more samples fed and a
\* detection made has been reset.
ResetUnderManual ==
    /\ bop = "reset"
    /\ feed = "recorded"
    /\ fed >= MinDetectSamples
    /\ samples = <<>>
    /\ last_detected = None
    /\ pinned = Some(50)
    /\ GetBaseline = Some(50)

(***************************************************************************)
(* EstimationMonitor: hardware/estimator.rs.  Ratios are in percent, powers *)
(* in centiwatts (tdp watts times a ratio in percent), loads in percent of  *)
(* one core.                                                                *)
(***************************************************************************)
Profile(tdp, idle_pct, max_pct) == [tdp |-> tdp, idle_pct |-> idle_pct, max_pct |-> max_pct]

\* get_tdp_profile: the table, category by category.
TdpProfiles ==
    [IntelDesktopI3 |-> Profile(65, 12, 120), IntelDesktopI5 |-> Profile(80, 12, 140),
     IntelDesktopI7 |-> Profile(110, 10, 150), IntelDesktopI9 |-> Profile(150, 10, 170),
     IntelLaptopU |-> Profile(15, 15, 180), IntelLaptopP |-> Profile(28, 14, 160),
     IntelLaptopH |-> Profile(45, 12, 150), IntelLaptopHX |-> Profile(55, 10, 180),
     AmdDesktopRyzen3 |-> Profile(65, 12, 120), AmdDesktopRyzen5 |-> Profile(65, 12, 140),
     AmdDesktopRyzen7 |-> Profile(95, 11, 140), AmdDesktopRyzen9 |-> Profile(125, 10, 160),
     AmdDesktopThreadripper |-> Profile(280, 8, 130),
     AmdLaptopU |-> Profile(15, 15, 180), AmdLaptopHS |-> Profile(35, 13, 150),
     AmdLaptopH |-> Profile(45, 12, 150), AmdLaptopHX |-> Profile(55, 10, 180),
     AppleM1 |-> Profile(15, 20, 150), AppleM1Pro |-> Profile(30, 18, 140),
     AppleM1Max |-> Profile(40, 15, 150), AppleM2 |-> Profile(15, 20, 150),
     AppleM2Pro |-> Profile(30, 18, 140), AppleM2Max |-> Profile(40, 15, 150),
     AppleM3 |-> Profile(15, 20, 150), AppleM3Pro |-> Profile(30, 18, 140),
     AppleM3Max |-> Profile(40, 15, 150),
     GenericDesktop |-> Profile(85, 12, 140), GenericLaptop |-> Profile(25, 14, 150)]

CpuCategory == DOMAIN TdpProfiles

GetTdpProfile(c) == TdpProfiles[c]

\* TdpProfile::idle_power and max_power
IdlePower(profile) == profile.tdp * profile.idle_pct
MaxPower(profile) == profile.tdp * profile.max_pct

\* What sysinfo may report for one core, past 100 included, and for a machine:
\* no core at all, one core, two cores.
CoreLoads == {0, 5, 6, 100, 150}
PairLoads == {0, 100}
LoadVectors ==
    {<<>>} \cup {<<a>> : a \in CoreLoads} \cup {<<a, b>> : a \in PairLoads, b \in PairLoads}

RECURSIVE SumLoads(_)
SumLoads(loads) == IF loads = <<>> THEN 0 ELSE Head(loads) + SumLoads(Tail(loads))

Clamp(x, lo, hi) == IF x < lo THEN lo ELSE IF x > hi THEN hi ELSE x

\* calculate_estimated_power without either clamp.
EstimatedPowerUnclamped(profile, loads) ==
    IF loads = <<>> THEN IdlePower(profile)
    ELSE LET total_cores == Len(loads)
             active_cores == Cardinality({i \in 1..total_cores : loads[i] > 5})
             num == SumLoads(loads) * (7 * total_cores + 3 * active_cores)
             den == 1000 * total_cores * total_cores
         IN  IdlePower(profile) + (num * (MaxPower(profile) - IdlePower(profile))) \div den

\* calculate_estimated_power counting a core at exactly 5 % as active.
EstimatedPowerActiveFromFive(profile, loads) ==
    IF loads = <<>> THEN IdlePower(profile)
    ELSE LET total_cores == Len(loads)
             active_cores == Cardinality({i \in 1..total_cores : loads[i] >= 5})
             den == 1000 * total_cores * total_cores
             num == Clamp(SumLoads(loads) * (7 * total_cores + 3 * active_cores), 0, den)
             power == IdlePower(profile)
                      + (num * (MaxPower(profile) - IdlePower(profile))) \div den
         IN  Clamp(power, IdlePower(profile), MaxPower(profile))

\* calculate_estimated_power: idle with no cpu; else avg_load = sum / cores,
\* active_ratio = cores over 5 % / cores, load_factor = avg_load * (0.7 + 0.3 *
\* active_ratio) clamped to [0, 1], power = idle + load_factor * (max - idle)
\* clamped to [idle, max].  load_factor is num / den.
EstimatedPower(profile, loads) ==
    IF loads = <<>> THEN IdlePower(profile)
    ELSE LET total_cores == Len(loads)
             active_cores == Cardinality({i \in 1..total_cores : loads[i] > 5})
             den == 1000 * total_cores * total_cores
             num == Clamp(SumLoads(loads) * (7 * total_cores + 3 * active_cores), 0, den)
             power == IdlePower(profile)
                      + (num * (MaxPower(profile) - IdlePower(profile))) \div den
         IN  Clamp(power, IdlePower(profile), MaxPower(profile))

\* get_component_breakdown: "cpu" is 70 % of a fresh estimate on a laptop, 65 %
\* elsewhere.
CpuComponent(profile, loads) ==
    (EstimatedPower(profile, loads) * (IF is_laptop_cpu THEN 70 ELSE 65)) \div 100

\* EstimationMonitor::new: whatever category and form CpuSpecs::detect finds.
EstimatorInit ==
    /\ StartupDone("estimator")
    /\ now = 0
    /\ FieldsParked
    /\ CachesEmpty
    /\ OpParked
    /\ RaplParked
    /\ CmdParked
    /\ LoopsParked
    /\ ReaderParked
    /\ BaselineParked
    /\ GpuProcsParked
    /\ ConfigParked
    /\ EntryParked
    /\ LateParked
    /\ category \in CpuCategory
    /\ is_laptop_cpu \in BOOLEAN
    /\ EstimatorConstructed

notEstimator == <<startupVars, now, fieldVars, cacheVars, opVars, raplVars, cmdVars,
                  loopVars, readerVars, baselineVars, gpuProcVars, configVars, entryVars, lateVars>>

\* get_power_watts: Ok(self.calculate_estimated_power()), which refreshes the
\* cpu usage first.
EstimatorGetPowerWatts ==
    /\ \E loads \in LoadVectors :
         /\ cpu_loads' = loads
         /\ est_power' = EstimatedPower(GetTdpProfile(category), loads)
    /\ est_op' = "get_power_watts"
    /\ UNCHANGED <<category, is_laptop_cpu, est_cpu, notEstimator>>

\* get_reading: one estimate for the power, a second, after a second refresh,
\* for the component breakdown.
EstimatorReading ==
    /\ \E first \in LoadVectors, second \in LoadVectors :
         /\ est_power' = EstimatedPower(GetTdpProfile(category), first)
         /\ cpu_loads' = second
         /\ est_cpu' = CpuComponent(GetTdpProfile(category), second)
    /\ est_op' = "get_reading"
    /\ UNCHANGED <<category, is_laptop_cpu, notEstimator>>

EstimatorNext == EstimatorGetPowerWatts \/ EstimatorReading

SpecEstimator == EstimatorInit /\ [][EstimatorNext]_vars

ProfileInOrder(profile) ==
    /\ 0 < profile.idle_pct
    /\ profile.idle_pct < 100
    /\ 100 <= profile.max_pct
    /\ IdlePower(profile) < profile.tdp * 100
    /\ profile.tdp * 100 <= MaxPower(profile)

InClampRange(profile, power) ==
    IdlePower(profile) <= power /\ power <= MaxPower(profile)

\* C20: for every TDP profile of the category table and every per-core load
\* vector the estimator's power satisfies idle_power <= power <= max_power;
\* every profile has 0 < idle_ratio < 1 <= max_power_ratio, so that
\* idle_power < tdp <= max_power and the clamp range is never empty.
EstimateWithinIdleAndMax ==
    /\ \A c \in CpuCategory :
         /\ ProfileInOrder(GetTdpProfile(c))
         /\ \A loads \in LoadVectors :
              InClampRange(GetTdpProfile(c), EstimatedPower(GetTdpProfile(c), loads))
    /\ est_op # "none" => InClampRange(GetTdpProfile(category), est_power)

\* A core reported at 150 % on a desktop i9: the estimate is max_power, 255 W.
OverloadedCoreAtMaxPower ==
    /\ est_op = "get_power_watts"
    /\ category = "IntelDesktopI9"
    /\ cpu_loads = <<150>>
    /\ est_power = 25500
    /\ est_power = MaxPower(GetTdpProfile(category))

\* The load vectors the estimate is compared over: one or two cores at any
\* of six loads, three cores at three.
WideLoads == CoreLoads \cup {50}
TripleLoads == {0, 6, 100}
WideVectors ==
    {<<a>> : a \in WideLoads} \cup {<<a, b>> : a \in WideLoads, b \in WideLoads}
    \cup {<<a, b, c>> : a \in TripleLoads, b \in TripleLoads, c \in TripleLoads}

\* The statement's formula, in centiwatts: load_factor is the fraction
\* sum * (7 n + 3 a) / (1000 n n) for n cores of which a are above 5 %, cut to
\* [0, 1].
StatedEstimate(profile, loads) ==
    LET n == Len(loads)
        a == Cardinality({i \in 1..n : loads[i] > 5})
        raw == SumLoads(loads) * (7 * n + 3 * a)
        full == 1000 * n * n
        cut == IF raw > full THEN full ELSE raw
    IN  IdlePower(profile) + (cut * (MaxPower(profile) - IdlePower(profile))) \div full

AllAt(loads, pct) == \A i \in 1..Len(loads) : loads[i] = pct

EstimateFollowsLoads(profile, loads) ==
    /\ EstimatedPower(profile, loads) = StatedEstimate(profile, loads)
    /\ AllAt(loads, 0) => EstimatedPower(profile, loads) = IdlePower(profile)
    /\ AllAt(loads, 100) => EstimatedPower(profile, loads) = MaxPower(profile)
    /\ \A i \in 1..Len(loads), more \in WideLoads :
         more > loads[i] =>
             EstimatedPower(profile, [loads EXCEPT ![i] = more])
                 >= EstimatedPower(profile, loads)

\* C21: the estimate is idle_power + load_factor * (max_power - idle_power)
\* with load_factor = avg_load * (0.7 + 0.3 * active_ratio) clamped to [0, 1],
\* active_ratio being the fraction of cores strictly above 5 %; it is
\* idle_power when every core is idle, max_power when every core is at 100 %,
\* and never decreases when the load of one core increases.
EstimateIsLoadFactorFormula ==
    /\ \A loads \in WideVectors : EstimateFollowsLoads(GetTdpProfile(category), loads)
    /\ (est_op = "get_power_watts" /\ cpu_loads # <<>>) =>
           /\ est_power = StatedEstimate(GetTdpProfile(category), cpu_loads)
           /\ EstimateFollowsLoads(GetTdpProfile(category), cpu_loads)

\* One core of two at 100 % on a desktop i3: load_factor 0.425, 37.63 W.
HalfLoadedEstimate ==
    /\ est_op = "get_power_watts"
    /\ category = "IntelDesktopI3"
    /\ cpu_loads = <<100, 0>>
    /\ est_power = 3763

(***************************************************************************)
(* Per-process GPU usage: nvml_gpu::query_gpu_processes and                *)
(* WmiMonitor::fetch_nvidia_gpu_processes.  Shares are in tenths of a      *)
(* percent, so the presence marker 0.1 is 1; the map is a function from    *)
(* the pids it holds.  A device that cannot be opened gives the empty map, *)
(* as three failed queries do.                                             *)
(***************************************************************************)
Pids == {1, 2}
MaxListed == 2
UsedMemory == {0, 1}
SmPercents == {0 - 5, 0, 45, 150}

ProcEntries == {<<pid, mem>> : pid \in Pids, mem \in UsedMemory}
SampleEntries == {<<pid, sm>> : pid \in Pids, sm \in SmPercents}

\* The lists of at most n entries, and a failed query.
ListsOf(entries, n) ==
    {None} \cup {Some(l) : l \in UNION {[1..k -> entries] : k \in 0..n}}

EmptyMap == <<>>
MapGet(m, pid) == IF pid \in DOMAIN m THEN m[pid] ELSE 0
MapInsert(m, pid, v) == [p \in (DOMAIN m) \cup {pid} |-> IF p = pid THEN v ELSE m[p]]
Larger(a, b) == IF a >= b THEN a ELSE b

\* for proc in compute: result.insert(pid, if mem_bytes > 0 { 0.1 } else { 0.0 })
RECURSIVE CollectCompute(_, _)
CollectCompute(result, procs) ==
    IF procs = <<>> THEN result
    ELSE LET proc == Head(procs)
         IN  CollectCompute(MapInsert(result, proc[1], IF proc[2] > 0 THEN 1 ELSE 0),
                            Tail(procs))

\* for proc in graphics: entry(pid).or_insert(0.0), raised to 0.1 if mem_bytes > 0
RECURSIVE CollectGraphics(_, _)
CollectGraphics(result, procs) ==
    IF procs = <<>> THEN result
    ELSE LET proc == Head(procs)
             entry == MapGet(result, proc[1])
         IN  CollectGraphics(MapInsert(result, proc[1],
                                       IF proc[2] > 0 /\ entry < 1 THEN 1 ELSE entry),
                             Tail(procs))

\* for sample in samples: if sm > 0, entry(pid).or_insert(0.0) becomes
\* entry.max(sm.clamp(0.0, 100.0))
RECURSIVE CollectSamples(_, _)
CollectSamples(result, samples_) ==
    IF samples_ = <<>> THEN result
    ELSE LET sample == Head(samples_)
             entry == MapGet(result, sample[1])
         IN  CollectSamples(IF sample[2] > 0
                            THEN MapInsert(result, sample[1],
                                           Larger(entry, Clamp(sample[2], 0, 100) * 10))
                            ELSE result,
                            Tail(samples_))

\* for line in pmon: entry(pid).or_insert(0.0) becomes entry.max(sm.clamp(0.0, 100.0))
RECURSIVE CollectPmon(_, _)
CollectPmon(result, lines) ==
    IF lines = <<>> THEN result
    ELSE LET line == Head(lines)
             entry == MapGet(result, line[1])
         IN  CollectPmon(MapInsert(result, line[1],
                                   Larger(entry, Clamp(line[2], 0, 100) * 10)),
                         Tail(lines))

Listed(o) == IF IsSome(o) THEN Unwrap(o) ELSE <<>>

\* nvml_gpu::query_gpu_processes
QueryGpuProcessesMap ==
    CollectSamples(CollectGraphics(CollectCompute(EmptyMap, Listed(compute_procs)),
                                   Listed(graphics_procs)),
                   Listed(util_samples))

\* WmiMonitor::fetch_nvidia_gpu_processes
FetchNvidiaGpuProcessesMap == CollectPmon(EmptyMap, Listed(util_samples))

GpuProcsInit ==
    /\ StartupDone("wmi")
    /\ now = 0
    /\ FieldsParked
    /\ CachesEmpty
    /\ OpParked
    /\ RaplParked
    /\ CmdParked
    /\ LoopsParked
    /\ ReaderParked
    /\ BaselineParked
    /\ EstimatorParked
    /\ ConfigParked
    /\ EntryParked
    /\ LateParked
    /\ compute_procs \in ListsOf(ProcEntries, MaxListed)
    /\ graphics_procs \in ListsOf(ProcEntries, 1)
    /\ util_samples \in ListsOf(SampleEntries, MaxListed)
    /\ gp_ret = EmptyMap
    /\ gp_op = "none"

notGpuProcs == <<startupVars, now, fieldVars, cacheVars, opVars, raplVars, cmdVars,
                 loopVars, readerVars, baselineVars, estVars, configVars, entryVars, lateVars>>

QueryGpuProcesses ==
    /\ gp_ret' = QueryGpuProcessesMap
    /\ gp_op' = "query_gpu_processes"
    /\ UNCHANGED <<compute_procs, graphics_procs, util_samples, notGpuProcs>>

FetchNvidiaGpuProcesses ==
    /\ gp_ret' = FetchNvidiaGpuProcessesMap
    /\ gp_op' = "fetch_nvidia_gpu_processes"
    /\ UNCHANGED <<compute_procs, graphics_procs, util_samples, notGpuProcs>>

GpuProcsNext == QueryGpuProcesses \/ FetchNvidiaGpuProcesses

SpecGpuProcs == GpuProcsInit /\ [][GpuProcsNext]_vars

\* The signals of one pid: its presence marker and its largest sampled
\* utilization, clamped.
Indexes(list) == 1..Len(list)
PresenceMarker(pid) ==
    IF \E l \in {Listed(compute_procs), Listed(graphics_procs)} :
           \E i \in Indexes(l) : l[i][1] = pid /\ l[i][2] > 0
    THEN 1 ELSE 0

RECURSIVE MaxOf(_)
MaxOf(S) == IF S = {} THEN 0
            ELSE LET x == CHOOSE y \in S : TRUE IN Larger(x, MaxOf(S \ {x}))

SampledUtilization(pid) ==
    LET l == Listed(util_samples)
    IN  MaxOf({Clamp(l[i][2], 0, 100) * 10 : i \in {j \in Indexes(l) : l[j][1] = pid}})

StatedShare(pid) == Larger(PresenceMarker(pid), SampledUtilization(pid))

NoPidListedTwice(list) ==
    \A i \in Indexes(list), j \in Indexes(list) : list[i][1] = list[j][1] => i = j

\* C24: for every process id the share query_gpu_processes returns is the
\* maximum over its signals, the presence marker (0.1 when the process is
\* listed as a compute or graphics process with non-zero GPU memory, else 0)
\* and the sampled utilization clamped to [0, 100], in whatever order and
\* however many times the sources list the process; every returned value is
\* within [0, 100].
ShareIsMaxOfSignals ==
    gp_op = "query_gpu_processes" =>
        \A pid \in Pids :
            /\ MapGet(gp_ret, pid) = StatedShare(pid)
            /\ 0 <= MapGet(gp_ret, pid)
            /\ MapGet(gp_ret, pid) <= 1000

\* The same holds when the compute list names no pid twice, and the pmon path
\* returns the largest clamped utilization.
ShareIsMaxWithoutRepeats ==
    /\ (gp_op = "query_gpu_processes" /\ NoPidListedTwice(Listed(compute_procs))) =>
           \A pid \in Pids :
               MapGet(gp_ret, pid) = StatedShare(pid) /\ MapGet(gp_ret, pid) \in 0..1000
    /\ gp_op = "fetch_nvidia_gpu_processes" =>
           \A pid \in Pids : MapGet(gp_ret, pid) = SampledUtilization(pid)

(***************************************************************************)
(* The two tasks under a configured threshold: the default, or 0 ("always  *)
(* collect the extended metrics").                                         *)
(***************************************************************************)
ThresholdChoices == {0, ExtendedThreshold}

SlowCyclesInit ==
    /\ \E b \in LoopBackends : StartupDone(b)
    /\ now = 0
    /\ IF source = "wmi"
       THEN /\ \E g \in LoopGpuChoices : gpu_source = g[1] /\ nvml_state = g[2]
            /\ is_laptop \in LaptopChoices
            /\ cpu_tdp_estimate \in TdpChoices
       ELSE FieldsParked
    /\ CachesEmpty
    /\ OpParked
    /\ RaplParked
    /\ CmdParked
    /\ LoopsParked
    /\ OthersParked
    /\ EntryParked
    /\ LateParked
    /\ extended_metrics_threshold \in ThresholdChoices

SpecSlowCycles == SlowCyclesInit /\ [][LoopsNext]_vars

\* The statement's condition on the critical snapshot the slow tick finds.
AtOrAboveThreshold ==
    /\ IsSome(critical_metrics_cache)
    /\ \/ Unwrap(critical_metrics_cache).cpu_usage_percent >= extended_metrics_threshold
       \/ /\ IsSome(Unwrap(critical_metrics_cache).gpu_usage_percent)
          /\ Unwrap(Unwrap(critical_metrics_cache).gpu_usage_percent)
                 >= extended_metrics_threshold

\* The slow task's decision for a cycle is the statement's condition.
CycleDecidedAtTick ==
    (spc = "tick" /\ spc' = "lock") => should_collect_extended' = AtOrAboveThreshold

FansOnlyWhenExtended ==
    IsSome(detailed_metrics_cache) =>
        LET d == Unwrap(detailed_metrics_cache)
        IN  (IsSome(d.fans) \/ IsSome(d.voltages)) => d.extended_collected

\* The snapshot of the last finished cycle.
CycleDone == spc = "tick" /\ IsSome(detailed_metrics_cache)

\* C26 as stated: in every detailed snapshot fans and voltages are present
\* only if the cycle was an extended one (extended_collected = true), and a
\* slow tick is an extended cycle exactly when a critical snapshot exists and
\* its CPU usage or its GPU usage is at or above the configured threshold;
\* before the first critical snapshot no cycle is extended.
ExtendedExactlyAtThreshold ==
    /\ FansOnlyWhenExtended
    /\ CycleDone =>
           Unwrap(detailed_metrics_cache).extended_collected = should_collect_extended

\* C26, amended: the same, for a backend that implements the collection; the
\* snapshot of a backend that does not (the estimator, whose collection
\* returns Err) is never an extended one, whatever the threshold.
ExtendedAtThresholdWhereCollected ==
    /\ [](/\ FansOnlyWhenExtended
          /\ CycleDone =>
                 Unwrap(detailed_metrics_cache).extended_collected
                     = (should_collect_extended /\ source # "estimator"))
    /\ [][CycleDecidedAtTick]_vars

\* An extended cycle has published a snapshot with fan speeds in it.
ExtendedSnapshotWithFans ==
    /\ CycleDone
    /\ should_collect_extended
    /\ Unwrap(detailed_metrics_cache).extended_collected
    /\ IsSome(Unwrap(detailed_metrics_cache).fans)

(***************************************************************************)
(* One cache entry under concurrent callers: hardware/windows.rs           *)
(* WmiMonitor::get_gpu_power on its CLI path.  A call is three steps: the   *)
(* lookup under the gpu_cache lock, the CLI query with no lock held, the    *)
(* store under the lock again.  Time passes between any two steps.         *)
(***************************************************************************)
MaxEntryUs == 3000000
EntrySteps == {1000000}
EntryMilliwatts == {60000, 90000}

\* What get_nvidia_gpu_power / get_amd_gpu_power may come back with.
GpuPowerResults == {None} \cup {Some(w) : w \in EntryMilliwatts}

GpuEntryInit ==
    /\ StartupDone("wmi")
    /\ now = 0
    /\ gpu_source \in {"Nvidia", "Amd"}
    /\ nvml_state = FALSE
    /\ is_laptop = FALSE
    /\ cpu_tdp_estimate = 0
    /\ CachesEmpty
    /\ OpParked
    /\ RaplParked
    /\ CmdParked
    /\ LoopsParked
    /\ OthersParked
    /\ ConfigParked
    /\ EntryParked
    /\ LateParked

notGpuEntry == <<startupVars, fieldVars, gpu_metrics_cache, cpu_temp_cache,
                 gpu_process_cache, fan_cache, memory_info_cache, opVars, raplVars,
                 cmdVars, loopVars, readerVars, baselineVars, estVars, gpuProcVars,
                 configVars, lateVars>>

\* `let cache = self.gpu_cache.lock().unwrap(); ... cached.get(2000) ... return value`
GpuPowerCheck(c) ==
    /\ gpc[c] = "check"
    /\ LET hit == Lookup(gpu_cache, GpuPowerTtlMs)
       IN  IF IsSome(hit)
           THEN /\ gret' = [gret EXCEPT ![c] = Some([value |-> Unwrap(hit), at |-> now,
                                                     hit |-> TRUE])]
                /\ gpc' = gpc
           ELSE /\ gpc' = [gpc EXCEPT ![c] = "fetch"]
                /\ gret' = gret
    /\ UNCHANGED <<now, gpu_cache, gresult, installed, notGpuEntry>>

\* `let result = match self.gpu_source { ... }`
GpuPowerFetch(c) ==
    /\ gpc[c] = "fetch"
    /\ \E r \in GpuPowerResults : gresult' = [gresult EXCEPT ![c] = r]
    /\ gpc' = [gpc EXCEPT ![c] = "store"]
    /\ UNCHANGED <<now, gpu_cache, gret, installed, notGpuEntry>>

\* `*cache = Some(CachedValue::new(result.clone()));` under the lock, `result`
GpuPowerStore(c) ==
    /\ gpc[c] = "store"
    /\ gpu_cache' = Some(CachedValueNew(gresult[c]))
    /\ installed' = installed \cup {[value |-> gresult[c], timestamp |-> now]}
    /\ gret' = [gret EXCEPT ![c] = Some([value |-> gresult[c], at |-> now,
                                         hit |-> FALSE])]
    /\ gpc' = [gpc EXCEPT ![c] = "check"]
    /\ UNCHANGED <<now, gresult, notGpuEntry>>

GpuEntryAges ==
    /\ \E d \in EntrySteps :
         /\ now + d <= MaxEntryUs
         /\ now' = now + d
    /\ UNCHANGED <<gpu_cache, entryVars, notGpuEntry>>

GpuEntryNext ==
    \/ \E c \in Callers : GpuPowerCheck(c)
    \/ \E c \in Callers : GpuPowerFetch(c)
    \/ \E c \in Callers : GpuPowerStore(c)
    \/ GpuEntryAges

SpecGpuEntry == GpuEntryInit /\ [][GpuEntryNext]_vars

\* The entry is the pair one refresh made, and what a caller was handed is the
\* value of a refresh that was less than the TTL old at the hand-over.
HandedFromOneRefresh ==
    /\ IsSome(gpu_cache) => Unwrap(gpu_cache) \in installed
    /\ \A c \in Callers :
         IsSome(gret[c]) =>
             \E p \in installed :
                 /\ p.value = Unwrap(gret[c]).value
                 /\ p.timestamp <= Unwrap(gret[c]).at
                 /\ Unwrap(gret[c]).at - p.timestamp < GpuPowerTtlMs * UsPerMs

\* A refresh by one caller leaves what every other caller holds.
CopyStaysStep ==
    \A c, d \in Callers :
        (d # c /\ gpc[d] = "store" /\ gpc'[d] = "check") => gret'[c] = gret[c]

\* C28: every cache refresh installs a new (value, capture time) pair as one
\* unit under the entry's lock: no reader obtains a value paired with the
\* capture time of a different refresh, and a value handed to a reader is a
\* copy that later refreshes do not change.
RefreshInstallsPairAsUnit == []HandedFromOneRefresh /\ [][CopyStaysStep]_vars

\* A caller holds the wattage it was handed from the entry while the entry
\* holds another wattage, installed by a later refresh.
CopyOutlivedRefresh ==
    \E c \in Callers :
        /\ IsSome(gret[c])
        /\ Unwrap(gret[c]).hit
        /\ IsSome(gpu_cache)
        /\ Unwrap(gpu_cache).timestamp > Unwrap(gret[c]).at
        /\ Unwrap(gpu_cache).value # Unwrap(gret[c]).value

\* A wattage some refresh captured less than the fast path's tolerance ago.
CapturedWithinTolerance ==
    \E p \in installed :
        /\ IsSome(p.value)
        /\ now - p.timestamp < FAST_PATH_CACHE_TTL_MS * UsPerMs

\* C34: a refresh whose external call fails does not discard a cached value
\* its readers still tolerate: the fast path still reports the last GPU value
\* captured less than 10 s ago, and no detailed read is served the failure
\* from the cache in place of a retry.
FailedRefreshKeepsValue ==
    /\ CapturedWithinTolerance => IsSome(GetCachedGpuDataForFastPath.gpu_power)
    /\ \A c \in Callers :
         (CapturedWithinTolerance /\ IsSome(gret[c]) /\ Unwrap(gret[c]).hit)
         => IsSome(Unwrap(gret[c]).value)

(***************************************************************************)
(* The locks: main.rs TauriState (tokio mutexes) and, under the monitor     *)
(* lock, the backend's own (hardware/windows.rs WmiMonitor).  Each task is  *)
(* the sequence of lock acquisitions and releases of one pass through its  *)
(* code; a guard is released where it goes out of scope or is dropped.     *)
(***************************************************************************)
Acq(l) == <<"acq", l>>
Rel(l) == <<"rel", l>>
Scoped(l) == <<Acq(l), Rel(l)>>

\* get_power_watts_fast_impl: get_cpu_info, get_cached_gpu_data_for_fast_path
\* (its two cache locks one after the other; the second stands for both).
BackendFast == Scoped("sys") \o Scoped("gpu_cache")

\* get_power_watts / get_reading: get_cpu_info, get_gpu_power.
BackendReading == Scoped("sys") \o Scoped("gpu_cache")

\* collect_detailed_metrics_impl: get_system_metrics_impl (sys dropped before
\* the getters), then get_top_processes_with_pinned.
BackendDetailed ==
    Scoped("sys") \o Scoped("cpu_temp_cache") \o Scoped("gpu_metrics_cache")
        \o Scoped("sys")

\* critical_monitoring_loop, one pass: with or without an active session;
\* persisting nothing (count % 10 # 0), or a reading and the daily statistics
\* (count % 60 = 0, which takes every lock the reading alone takes).
CriticalPass(session, persist) ==
    Scoped("config")
        \o <<Acq("monitor")>> \o BackendFast \o <<Rel("monitor")>>
        \o <<Acq("app_state"), Acq("pricing"), Rel("pricing"), Rel("app_state")>>
        \o Scoped("pricing")
        \o Scoped("baseline_detector")
        \o (IF session
            THEN <<Acq("active_session"), Acq("pricing"), Rel("pricing"),
                   Rel("active_session")>>
            ELSE Scoped("active_session"))
        \o Scoped("monitor")
        \o Scoped("critical_metrics_cache")
        \o (IF persist
            THEN <<Acq("monitor")>> \o BackendReading
                     \o <<Acq("db"), Acq("config"), Rel("config"), Acq("pricing"),
                          Rel("pricing"), Rel("db"), Rel("monitor")>>
            ELSE <<>>)

\* detailed_monitoring_loop, one pass.
DetailedPass ==
    Scoped("config")
        \o <<Acq("critical_metrics_cache"), Acq("config"), Rel("config"),
             Rel("critical_metrics_cache")>>
        \o <<Acq("monitor")>> \o BackendDetailed \o <<Rel("monitor")>>
        \o Scoped("detailed_metrics_cache")

\* get_dashboard_data taking the pricing lock before the monitor lock.
GetDashboardDataPricingFirst ==
    <<Acq("app_state"), Acq("pricing"), Acq("monitor")>> \o BackendReading
        \o <<Rel("pricing"), Rel("monitor"), Rel("app_state")>>

\* get_dashboard_data
GetDashboardData ==
    <<Acq("app_state"), Acq("monitor"), Acq("pricing")>> \o BackendReading
        \o <<Rel("pricing"), Rel("monitor"), Rel("app_state")>>

\* set_config: saved, or returning at `current_config.save()...?`
SetConfig(saved) ==
    IF saved
    THEN <<Acq("config"), Acq("pricing"), Acq("i18n"), Rel("i18n"), Rel("pricing"),
           Rel("config")>>
    ELSE Scoped("config")

\* get_history
GetHistory ==
    <<Acq("db"), Acq("config"), Rel("config"), Acq("pricing"), Rel("pricing"),
      Rel("db")>>

Passes(t) ==
    CASE t = "critical" ->
            {CriticalPass(s, k) : s \in BOOLEAN, k \in BOOLEAN}
      [] t = "detailed" -> {DetailedPass}
      [] t = "get_dashboard_data" -> {GetDashboardData}
      [] t = "set_config" -> {SetConfig(TRUE), SetConfig(FALSE)}
      [] OTHER -> {GetHistory}

LocksInit ==
    /\ StartupDone("wmi")
    /\ now = 0
    /\ FieldsParked
    /\ CachesEmpty
    /\ OpParked
    /\ RaplParked
    /\ CmdParked
    /\ LoopsParked
    /\ OthersParked
    /\ ConfigParked
    /\ EntryParked
    /\ LocksParked
    /\ SessionsParked
    /\ PricingParked
    /\ TopParked

notLocks == <<startupVars, now, fieldVars, cacheVars, opVars, raplVars, cmdVars, loopVars,
              readerVars, baselineVars, estVars, gpuProcVars, configVars, entryVars,
              sessionVars, pricingVars, topVars>>

\* The step task t is about to make; <<"end", "none">> past its last one.
NextStep(t) ==
    IF at[t] <= Len(running[t]) THEN running[t][at[t]] ELSE <<"end", "none">>

\* A tick of a loop, or a command arriving.
TaskStarts(t) ==
    /\ running[t] = <<>>
    /\ \E p \in Passes(t) : running' = [running EXCEPT ![t] = p]
    /\ at' = [at EXCEPT ![t] = 1]
    /\ UNCHANGED <<held, notLocks>>

\* `.lock().await` returning the guard
LockAcquire(t) ==
    /\ NextStep(t)[1] = "acq"
    /\ held[NextStep(t)[2]] = "free"
    /\ held' = [held EXCEPT ![NextStep(t)[2]] = t]
    /\ at' = [at EXCEPT ![t] = @ + 1]
    /\ UNCHANGED <<running, notLocks>>

\* The guard dropped.
LockRelease(t) ==
    /\ NextStep(t)[1] = "rel"
    /\ held' = [held EXCEPT ![NextStep(t)[2]] = "free"]
    /\ at' = [at EXCEPT ![t] = @ + 1]
    /\ UNCHANGED <<running, notLocks>>

\* The pass is over.
TaskEnds(t) ==
    /\ running[t] # <<>>
    /\ NextStep(t)[1] = "end"
    /\ running' = [running EXCEPT ![t] = <<>>]
    /\ at' = [at EXCEPT ![t] = 1]
    /\ UNCHANGED <<held, notLocks>>

LocksNext ==
    \/ \E t \in Tasks : TaskStarts(t)
    \/ \E t \in Tasks : LockAcquire(t)
    \/ \E t \in Tasks : LockRelease(t)
    \/ \E t \in Tasks : TaskEnds(t)

SpecLocks == LocksInit /\ [][LocksNext]_vars

\* The lock task t waits for, "none" when it waits for none.
Wants(t) == IF NextStep(t)[1] = "acq" THEN NextStep(t)[2] ELSE "none"

Blocked(t) == Wants(t) # "none" /\ held[Wants(t)] # "free"

\* Following who holds what t waits for leads, within n holders, to a task
\* that can go on.
RECURSIVE Unblocks(_, _)
Unblocks(t, n) ==
    IF ~Blocked(t) THEN TRUE
    ELSE IF n = 0 THEN FALSE
    ELSE Unblocks(held[Wants(t)], n - 1)

MaxSessions == 2
TicksAhead == 3
ConfigWatts == {0, 60}

\* The samples fed before the first state, from the recorded run; the window
\* holds the last nine, one short of a window that can be detected from.
FedBefore == MaxFed - TicksAhead

SessionsInit ==
    /\ StartupDone("wmi")
    /\ now = 0
    /\ FieldsParked
    /\ CachesEmpty
    /\ OpParked
    /\ RaplParked
    /\ CmdParked
    /\ LoopsParked
    /\ ReaderParked
    /\ EstimatorParked
    /\ GpuProcsParked
    /\ ConfigParked
    /\ EntryParked
    /\ LocksParked
    /\ SessionsParked
    /\ PricingParked
    /\ TopParked
    /\ samples = [i \in 1..(MinDetectSamples - 1) |->
                     Recorded(FedBefore - MinDetectSamples + i)]
    /\ max_samples = DEFAULT_SAMPLE_WINDOW
    /\ manual_baseline = None
    /\ last_detected = None
    /\ fed = FedBefore
    /\ kept = MinDetectSamples - 1
    /\ bop = "none"
    /\ barg = <<>>
    /\ bret = <<>>
    /\ pinned = None
    /\ detected = None
    /\ feed = "recorded"

notSessions == <<startupVars, now, fieldVars, cacheVars, opVars, raplVars, cmdVars,
                 loopVars, readerVars, baselineVars, estVars, gpuProcVars, configVars,
                 entryVars, lockVars, pricingVars, topVars>>

\* The starts that passed the guard and have not returned.
Starting == {c \in Callers : hpc[c] \in {"baseline", "db", "set"}}

\* start_tracking_session, the guard: Err while a session is active.
StartGuard(c) ==
    /\ hpc[c] = "idle"
    /\ IF IsSome(active_session)
       THEN /\ hret' = [hret EXCEPT ![c] = <<"start", "Err">>]
            /\ hpc' = hpc
       ELSE /\ Len(db_sessions) + Cardinality(Starting) < MaxSessions
            /\ hpc' = [hpc EXCEPT ![c] = "baseline"]
            /\ hret' = hret
    /\ hloc' = [hloc EXCEPT ![c] = NoLocals]
    /\ UNCHANGED <<active_session, db_sessions, baseline_auto, baseline_watts, taken,
                   notSessions>>

\* `detector.get_baseline().unwrap_or(0.0)` in auto mode, else the configured watts.
StartBaseline(c) ==
    /\ hpc[c] = "baseline"
    /\ hloc' = [hloc EXCEPT ![c] =
                   [baseline |-> IF baseline_auto
                                 THEN (IF IsSome(GetBaseline) THEN Unwrap(GetBaseline)
                                       ELSE 0)
                                 ELSE baseline_watts,
                    id |-> 0, auto |-> baseline_auto, window |-> samples,
                    manual |-> manual_baseline]]
    /\ hpc' = [hpc EXCEPT ![c] = "db"]
    /\ UNCHANGED <<active_session, db_sessions, baseline_auto, baseline_watts, hret,
                   taken, notSessions>>

\* `db.start_session(baseline_watts, label)?`: the new row's id, or Err.
StartDb(c) ==
    /\ hpc[c] = "db"
    /\ \E inserted \in BOOLEAN :
         IF inserted
         THEN /\ db_sessions' = Append(db_sessions, [baseline_watts |-> hloc[c].baseline,
                                                     ended |-> FALSE])
              /\ hloc' = [hloc EXCEPT ![c].id = Len(db_sessions) + 1]
              /\ hpc' = [hpc EXCEPT ![c] = "set"]
              /\ hret' = hret
         ELSE /\ hret' = [hret EXCEPT ![c] = <<"start", "Err">>]
              /\ hpc' = [hpc EXCEPT ![c] = "idle"]
              /\ hloc' = [hloc EXCEPT ![c] = NoLocals]
              /\ UNCHANGED db_sessions
    /\ UNCHANGED <<active_session, baseline_auto, baseline_watts, taken, notSessions>>

\* `*active = Some(SessionState { id, baseline_watts, total_wh: 0.0, .. })`, Ok(id)
StartSet(c) ==
    /\ hpc[c] = "set"
    /\ active_session' = Some([id |-> hloc[c].id, baseline_watts |-> hloc[c].baseline,
                               total_wh |-> 0, surplus_wh |-> 0])
    /\ hret' = [hret EXCEPT ![c] = <<"start", "Ok", hloc[c].id>>]
    /\ hpc' = [hpc EXCEPT ![c] = "idle"]
    /\ hloc' = [hloc EXCEPT ![c] = NoLocals]
    /\ UNCHANGED <<db_sessions, baseline_auto, baseline_watts, taken, notSessions>>

\* end_tracking_session: `active.take()`; Ok(None) when there was none.
EndTake(c) ==
    /\ hpc[c] = "idle"
    /\ active_session' = None
    /\ IF IsSome(active_session)
       THEN /\ hloc' = [hloc EXCEPT ![c] = [NoLocals EXCEPT
                            !.id = Unwrap(active_session).id,
                            !.baseline = Unwrap(active_session).baseline_watts]]
            /\ taken' = Append(taken, Unwrap(active_session).id)
            /\ hpc' = [hpc EXCEPT ![c] = "end_db"]
            /\ hret' = hret
       ELSE /\ hret' = [hret EXCEPT ![c] = <<"end", "None">>]
            /\ UNCHANGED <<hloc, taken, hpc>>
    /\ UNCHANGED <<db_sessions, baseline_auto, baseline_watts, notSessions>>

\* `db.end_session(session.id, ..)`
EndDb(c) ==
    /\ hpc[c] = "end_db"
    /\ db_sessions' = [db_sessions EXCEPT ![hloc[c].id].ended = TRUE]
    /\ hret' = [hret EXCEPT ![c] = <<"end", "Some", hloc[c].id>>]
    /\ hpc' = [hpc EXCEPT ![c] = "idle"]
    /\ hloc' = [hloc EXCEPT ![c] = NoLocals]
    /\ UNCHANGED <<active_session, baseline_auto, baseline_watts, taken, notSessions>>

\* The session block without the max(0.0).
SessionAccountSigned(session, power_watts) ==
    [session EXCEPT !.total_wh = @ + power_watts,
                    !.surplus_wh = @ + (power_watts - session.baseline_watts)]

\* critical_monitoring_loop under the active_session lock, over one hour:
\* total_wh += energy_wh; surplus_wh += (power - baseline).max(0.0) * elapsed
SessionAccount(session, power_watts) ==
    LET surplus_watts == IF power_watts - session.baseline_watts > 0
                         THEN power_watts - session.baseline_watts ELSE 0
    IN  [session EXCEPT !.total_wh = @ + power_watts,
                        !.surplus_wh = @ + surplus_watts]

\* The configuration and everything outside the session and the detector.
notSeeded == <<startupVars, now, fieldVars, cacheVars, opVars, raplVars, cmdVars,
               loopVars, readerVars, estVars, gpuProcVars, configVars, entryVars,
               lockVars, pricingVars, topVars>>

\* One fast tick of critical_monitoring_loop, from the detector on:
\* `detector.add_sample(power_watts)`, then the session block when a session
\* is active.
SessionTick ==
    /\ fed < MaxFed
    /\ LET power_watts == Recorded(fed)
       IN  /\ samples' = IF Len(samples) >= max_samples /\ samples # <<>>
                         THEN Append(Tail(samples), power_watts)
                         ELSE Append(samples, power_watts)
           /\ Called("add_sample", <<power_watts>>, <<>>)
           /\ active_session' =
                  IF IsSome(active_session)
                  THEN Some(SessionAccount(Unwrap(active_session), power_watts))
                  ELSE active_session
    /\ fed' = fed + 1
    /\ kept' = kept + 1
    /\ UNCHANGED <<max_samples, manual_baseline, last_detected, feed, db_sessions,
                   baseline_auto, baseline_watts, hpc, hloc, hret, taken, notSeeded>>

\* set_config: the configuration's baseline fields rewritten; the detector is
\* not told.
ConfigBaseline ==
    /\ \E auto \in BOOLEAN, w \in ConfigWatts :
         /\ baseline_auto' = auto
         /\ baseline_watts' = w
    /\ UNCHANGED <<active_session, db_sessions, hpc, hloc, hret, taken, notSessions>>

\* The set_manual_baseline command: the detector's override, then
\* config.advanced.baseline_watts = watts and baseline_auto = false.
SetManualBaselineCommand ==
    /\ \E watts \in ManualWatts :
         /\ manual_baseline' = Some(watts)
         /\ Called("set_manual_baseline", <<watts>>, <<>>)
         /\ baseline_watts' = watts
    /\ baseline_auto' = FALSE
    /\ UNCHANGED <<samples, max_samples, last_detected, feed, fed, kept,
                   active_session, db_sessions, hpc, hloc, hret, taken, notSeeded>>

\* The enable_auto_baseline command: the override cleared, then
\* config.advanced.baseline_auto = true.
EnableAutoBaselineCommand ==
    /\ manual_baseline' = None
    /\ Called("clear_manual_baseline", <<>>, <<>>)
    /\ baseline_auto' = TRUE
    /\ UNCHANGED <<samples, max_samples, last_detected, feed, fed, kept,
                   active_session, db_sessions, baseline_watts, hpc, hloc, hret,
                   taken, notSeeded>>

SessionsNext ==
    \/ \E c \in Callers : StartGuard(c)
    \/ \E c \in Callers : StartBaseline(c)
    \/ \E c \in Callers : StartDb(c)
    \/ \E c \in Callers : StartSet(c)
    \/ \E c \in Callers : EndTake(c)
    \/ \E c \in Callers : EndDb(c)
    \/ SessionTick
    \/ ConfigBaseline

SpecSessions == SessionsInit /\ [][SessionsNext]_vars

\* One caller's session commands beside the fast task and the baseline
\* commands: detect_baseline, set_manual_baseline, enable_auto_baseline.
Commander == {"a"}

SeededNext ==
    \/ \E c \in Commander : StartGuard(c)
    \/ \E c \in Commander : StartBaseline(c)
    \/ \E c \in Commander : StartDb(c)
    \/ \E c \in Commander : StartSet(c)
    \/ \E c \in Commander : EndTake(c)
    \/ \E c \in Commander : EndDb(c)
    \/ SessionTick
    \/ ConfigBaseline
    \/ DetectBaseline
    \/ SetManualBaselineCommand
    \/ EnableAutoBaselineCommand

SpecSeeded == SessionsInit /\ [][SeededNext]_vars

\* The row's start has returned and no end call has taken the session.
OpenAndStarted(i) ==
    /\ ~db_sessions[i].ended
    /\ \A c \in Callers : ~(hpc[c] \in {"set", "end_db"} /\ hloc[c].id = i)

\* C33: at most one tracking session is active at any time, under every
\* interleaving of start and end calls: every session row a successful start
\* created is the one held as the active session until it is ended, and each
\* session is taken by exactly one end call.
OneSessionAtATime ==
    /\ \A i \in 1..Len(db_sessions) :
           OpenAndStarted(i) =>
               IsSome(active_session) /\ Unwrap(active_session).id = i
    /\ \A i, j \in 1..Len(taken) : i # j => taken[i] # taken[j]

\* Each session is taken by one end call.
TakenOnce == \A i, j \in 1..Len(taken) : i # j => taken[i] # taken[j]

\* The value detect_baseline would take from a window: the element of the
\* sorted copy at the percentile index.
WindowPercentile(window) ==
    LET sorted == SortAsc(window)
        index == PercentileIndex(Len(sorted))
    IN  IF index + 1 <= Len(sorted) THEN sorted[index + 1] ELSE sorted[1]

\* C36: a session started in auto-baseline mode while the detector window
\* holds at least 10 samples gets the window's 5th-percentile value as its
\* baseline_watts rather than 0, whether or not detect_baseline was issued
\* before the start.
SessionSeededFromWindow ==
    \A c \in Callers :
        (/\ hpc[c] \in {"db", "set"}
         /\ hloc[c].auto
         /\ hloc[c].manual = None
         /\ Len(hloc[c].window) >= MinDetectSamples)
        => hloc[c].baseline = WindowPercentile(hloc[c].window)

\* The active session's energies are ordered and its baseline is the one its
\* row was created with.
SessionEnergiesOrdered ==
    IsSome(active_session) =>
        LET session == Unwrap(active_session)
        IN  /\ 0 <= session.surplus_wh
            /\ session.surplus_wh <= session.total_wh
            /\ session.baseline_watts = db_sessions[session.id].baseline_watts

\* A step that leaves the same session active.
SessionKeptStep ==
    (/\ IsSome(active_session)
     /\ IsSome(active_session')
     /\ Unwrap(active_session').id = Unwrap(active_session).id)
    => /\ Unwrap(active_session').total_wh >= Unwrap(active_session).total_wh
       /\ Unwrap(active_session').surplus_wh >= Unwrap(active_session).surplus_wh
       /\ Unwrap(active_session').baseline_watts = Unwrap(active_session).baseline_watts

\* C38: while a session is active, with power >= 0 on every tick and a
\* baseline >= 0, 0 <= surplus_wh <= total_wh after every fast tick, neither
\* value decreases, and the session's baseline_watts stays the value captured
\* at start whatever samples, detections or manual-baseline changes follow.
SessionEnergyBounded == []SessionEnergiesOrdered /\ [][SessionKeptStep]_vars

\* A tick has accounted for a session whose baseline the detector no longer
\* reports: some surplus, less than the total.
AccountedAfterBaselineChanged ==
    /\ bop = "add_sample"
    /\ IsSome(active_session)
    /\ Unwrap(active_session).baseline_watts > 0
    /\ Unwrap(active_session).surplus_wh > 0
    /\ Unwrap(active_session).surplus_wh < Unwrap(active_session).total_wh
    /\ IsSome(GetBaseline)
    /\ Unwrap(GetBaseline) # Unwrap(active_session).baseline_watts

(***************************************************************************)
(* The running cost: pricing/mod.rs PricingEngine and the cost lines of    *)
(* main.rs critical_monitoring_loop.  Energy in Wh, rates in 1/10000 of    *)
(* the currency unit per kWh, costs in 1/10000000 of the currency unit, so *)
(* that kwh * rate is exact.                                               *)
(***************************************************************************)
MaxPricedWh == 300
PricedWatts == {0, 100}
PricingModes == {"simple", "peak_offpeak", "seasonal", "tempo", "flat"}

\* What set_config can hand to update_config: the default rates under every
\* mode, and the simple rate lowered.
PricingConfigs ==
    {[DefaultPricingConfig EXCEPT !.mode = m] : m \in PricingModes}
    \cup {[DefaultPricingConfig EXCEPT !.simple.rate_per_kwh = 1500]}

\* The local times a tick can fall on.
Clocks ==
    {[hour |-> h, minute |-> m, month |-> mo, weekday |-> d] :
        h \in {5, 6, 22}, m \in {0, 59}, mo \in {1, 4, 7}, d \in {"Mon", "Sat"}}

\* parse_time: hours * 60 + minutes of a two-part string, a part that does not
\* parse counting 0; 0 for any other number of parts.
ParseTime(time_str) ==
    IF Len(time_str) = 2
    THEN LET hours == IF IsSome(time_str[1]) THEN Unwrap(time_str[1]) ELSE 0
             minutes == IF IsSome(time_str[2]) THEN Unwrap(time_str[2]) ELSE 0
         IN  hours * 60 + minutes
    ELSE 0

\* is_offpeak_time: inside [start, end), the range running over midnight when
\* start > end.
IsOffpeakTime ==
    LET current_time == local_now.hour * 60 + local_now.minute
        offpeak_start == ParseTime(pricing_config.peak_offpeak.offpeak_start)
        offpeak_end == ParseTime(pricing_config.peak_offpeak.offpeak_end)
    IN  IF offpeak_start > offpeak_end
        THEN current_time >= offpeak_start \/ current_time < offpeak_end
        ELSE current_time >= offpeak_start /\ current_time < offpeak_end

GetPeakOffpeakRate ==
    IF IsOffpeakTime THEN pricing_config.peak_offpeak.offpeak_rate
    ELSE pricing_config.peak_offpeak.peak_rate

GetSeasonalRate ==
    IF local_now.month \in pricing_config.seasonal.winter_months
    THEN pricing_config.seasonal.winter_rate
    ELSE pricing_config.seasonal.summer_rate

\* get_tempo_rate: white on the weekdays of December to April, October and
\* November, blue otherwise; never red.
GetTempoRate ==
    LET is_winter == local_now.month \in {12, 1, 2}
        is_weekday == local_now.weekday \in {"Mon", "Tue", "Wed", "Thu", "Fri"}
        day_color == IF is_winter /\ is_weekday THEN "white"
                     ELSE IF is_weekday /\ local_now.month \in {3, 4, 10, 11}
                          THEN "white"
                     ELSE "blue"
    IN  CASE day_color = "blue" /\ IsOffpeakTime -> pricing_config.tempo.blue_offpeak
          [] day_color = "blue" /\ ~IsOffpeakTime -> pricing_config.tempo.blue_peak
          [] day_color = "white" /\ IsOffpeakTime -> pricing_config.tempo.white_offpeak
          [] OTHER -> pricing_config.tempo.white_peak

\* get_current_rate: by mode, an unknown mode priced as simple.
GetCurrentRate ==
    CASE pricing_config.mode = "peak_offpeak" -> GetPeakOffpeakRate
      [] pricing_config.mode = "seasonal" -> GetSeasonalRate
      [] pricing_config.mode = "tempo" -> GetTempoRate
      [] OTHER -> pricing_config.simple.rate_per_kwh

\* calculate_cost(wh / 1000.0): kwh * self.get_current_rate()
CalculateCost(wh) == wh * GetCurrentRate

PricingInit ==
    /\ StartupDone("wmi")
    /\ now = 0
    /\ FieldsParked
    /\ CachesEmpty
    /\ OpParked
    /\ RaplParked
    /\ CmdParked
    /\ LoopsParked
    /\ MoreParked

notPricing == <<startupVars, now, fieldVars, cacheVars, opVars, raplVars, cmdVars,
                loopVars, readerVars, baselineVars, estVars, gpuProcVars, configVars,
                entryVars, lockVars, sessionVars, topVars>>

\* One fast tick of critical_monitoring_loop over an hour, its cost lines:
\* app_state.cumulative_wh += energy_wh;
\* app_state.current_cost = pricing.calculate_cost(app_state.cumulative_wh / 1000.0);
\* both published in the critical snapshot.
CostTick ==
    /\ \E power_watts \in PricedWatts :
         LET cumulative == app_state.cumulative_wh + power_watts
             snapshot == [cumulative_wh |-> cumulative,
                          current_cost |-> CalculateCost(cumulative)]
         IN  /\ cumulative <= MaxPricedWh
             /\ app_state' = snapshot
             /\ published' = IF published = <<>> THEN <<snapshot>>
                             ELSE <<published[Len(published)], snapshot>>
    /\ UNCHANGED <<pricing_config, local_now, notPricing>>

\* The wall clock between two ticks.
LocalTimePasses ==
    /\ local_now' \in Clocks \ {local_now}
    /\ UNCHANGED <<pricing_config, app_state, published, notPricing>>

\* set_config: pricing.update_config(&config.pricing)
SetConfigPricing ==
    /\ pricing_config' \in PricingConfigs \ {pricing_config}
    /\ UNCHANGED <<local_now, app_state, published, notPricing>>

PricingNext ==
    \/ CostTick
    \/ LocalTimePasses
    \/ SetConfigPricing

SpecPricing == PricingInit /\ [][PricingNext]_vars

\* The energy of consecutive snapshots never decreases.
EnergyNeverDecreases ==
    Len(published) = 2 => published[2].cumulative_wh >= published[1].cumulative_wh

\* C35: with non-negative power on every tick, cumulative_wh and current_cost
\* published in consecutive critical snapshots never decrease, for every
\* pricing mode and every change of the applicable rate between the ticks.
CostNeverDecreases ==
    Len(published) = 2 =>
        /\ published[2].cumulative_wh >= published[1].cumulative_wh
        /\ published[2].current_cost >= published[1].current_cost

(***************************************************************************)
(* The process list: hardware/windows.rs get_top_processes_with_pinned and *)
(* hardware/linux.rs get_top_processes_impl.  Percentages are whole        *)
(* numbers, memory_bytes is counted in hundredths of the total memory, the *)
(* usage score is kept times ten.                                          *)
(***************************************************************************)
MaxProcs == 3
ProcNames == {"Chrome", "chrome", "code", "idle"}
PinnedChoices == {{}, {"chrome"}, {"chrome", "CODE"}}
TopLimits == 0..3
TopPlatforms == {"windows", "linux"}

\* What one process can be using: cpu_usage(), memory(), gpu_usage.get(&pid)
ProcUsages ==
    {[cpu_percent |-> 10, memory_bytes |-> 10, gpu_percent |-> None],
     [cpu_percent |-> 60, memory_bytes |-> 10, gpu_percent |-> None],
     [cpu_percent |-> 20, memory_bytes |-> 0, gpu_percent |-> Some(90)]}

\* sys.processes() in the order its map iterates, pids 1, 2, ...
ProcessLists ==
    UNION {{[i \in 1..n |-> [pid |-> i, name |-> names[i],
                             cpu_percent |-> usages[i].cpu_percent,
                             memory_bytes |-> usages[i].memory_bytes,
                             gpu_percent |-> usages[i].gpu_percent]] :
               names \in [1..n -> ProcNames], usages \in [1..n -> ProcUsages]} :
           n \in 0..MaxProcs}

TopInputs ==
    {[platform |-> pl, processes |-> ps, limit |-> l, pinned_names |-> pn] :
        pl \in TopPlatforms, ps \in ProcessLists, l \in TopLimits, pn \in PinnedChoices}

\* The ASCII lower case of the names in use.
LowerAscii(name) ==
    CASE name = "Chrome" -> "chrome"
      [] name = "CODE" -> "code"
      [] OTHER -> name

\* pinned_names.iter().any(|p| p.eq_ignore_ascii_case(&name))
IsPinnedName(name, pinned_names) ==
    \E p \in pinned_names : LowerAscii(p) = LowerAscii(name)

\* The second pass: one entry per name, the first pid kept, the usages summed,
\* the GPU share summed where present, pinned if any instance is.
RECURSIVE AggregateByName(_, _, _)
AggregateByName(processes, pinned_names, aggregated) ==
    IF processes = <<>> THEN aggregated
    ELSE LET proc == Head(processes)
             is_pinned == IsPinnedName(proc.name, pinned_names)
             entry == IF proc.name \in DOMAIN aggregated
                      THEN aggregated[proc.name]
                      ELSE [pid |-> proc.pid, name |-> proc.name, cpu_percent |-> 0,
                            memory_bytes |-> 0, memory_percent |-> 0,
                            gpu_percent |-> None, is_pinned |-> is_pinned]
             summed == [entry EXCEPT
                           !.cpu_percent = @ + proc.cpu_percent,
                           !.memory_bytes = @ + proc.memory_bytes,
                           !.memory_percent = @ + proc.memory_bytes,
                           !.gpu_percent = IF IsSome(proc.gpu_percent)
                                           THEN Some((IF IsSome(@) THEN Unwrap(@) ELSE 0)
                                                     + Unwrap(proc.gpu_percent))
                                           ELSE @,
                           !.is_pinned = @ \/ is_pinned]
         IN  AggregateByName(Tail(processes), pinned_names,
                             [n \in DOMAIN aggregated \cup {proc.name} |->
                                 IF n = proc.name THEN summed ELSE aggregated[n]])

\* The clamp: cpu at 100 (at 100 * 128 on Linux), memory and GPU at 100.
Clamped(p, target_os) ==
    [p EXCEPT !.cpu_percent = Min(@, IF target_os = "linux" THEN 100 * 128 ELSE 100),
              !.memory_percent = Min(@, 100),
              !.gpu_percent = IF IsSome(@) THEN Some(Min(Unwrap(@), 100)) ELSE @]

\* usage_score: cpu * 0.4 + gpu.unwrap_or(0.0) * 0.4 + mem * 0.2, times ten
UsageScore(p) ==
    p.cpu_percent * 4 + (IF IsSome(p.gpu_percent) THEN Unwrap(p.gpu_percent) ELSE 0) * 4
    + p.memory_percent * 2

\* sort_by(score descending) of a vector in the map's iteration order: any
\* order of the entries with no score rising.
SortedByScore(entries) ==
    {order \in [1..Cardinality(entries) -> entries] :
        /\ \A i, j \in 1..Cardinality(entries) : i # j => order[i] # order[j]
        /\ \A i, j \in 1..Cardinality(entries) :
               i < j => UsageScore(order[i]) >= UsageScore(order[j])}

\* limit with no room kept for the pinned entries.
RemainingSlotsOfLimit(limit, pinned_len) == limit

\* limit.saturating_sub(pinned.len())
RemainingSlots(limit, pinned_len) == IF limit > pinned_len THEN limit - pinned_len ELSE 0

\* others.truncate(remaining_slots)
Truncate(others, remaining_slots) ==
    SubSeq(others, 1, Min(Len(others), remaining_slots))

\* The aggregated, clamped entries of a call.
TopEntries(in) ==
    LET aggregated == AggregateByName(in.processes, in.pinned_names, <<>>)
    IN  {Clamped(aggregated[n], in.platform) : n \in DOMAIN aggregated}

\* get_top_processes_with_pinned / get_top_processes_impl: every vector the
\* call can return.
GetTopProcessesWithPinned(in) ==
    LET processes == TopEntries(in)
        pinned_entries == {p \in processes : p.is_pinned}
        others == processes \ pinned_entries
        remaining_slots == RemainingSlots(in.limit, Cardinality(pinned_entries))
    IN  {ps \o Truncate(os, remaining_slots) :
            ps \in SortedByScore(pinned_entries), os \in SortedByScore(others)}

TopInit ==
    /\ StartupDone("wmi")
    /\ now = 0
    /\ FieldsParked
    /\ CachesEmpty
    /\ OpParked
    /\ RaplParked
    /\ CmdParked
    /\ LoopsParked
    /\ OthersParked
    /\ ConfigParked
    /\ EntryParked
    /\ LocksParked
    /\ SessionsParked
    /\ PricingParked
    /\ top_in \in TopInputs
    /\ top_ret = None

notTop == <<startupVars, now, fieldVars, cacheVars, opVars, raplVars, cmdVars,
            loopVars, readerVars, baselineVars, estVars, gpuProcVars, configVars,
            entryVars, lockVars, sessionVars, pricingVars>>

TopCall ==
    /\ top_ret = None
    /\ \E ret \in GetTopProcessesWithPinned(top_in) : top_ret' = Some(ret)
    /\ UNCHANGED <<top_in, notTop>>

TopNext == TopCall

SpecTop == TopInit /\ [][TopNext]_vars

\* The score the list is said to be ranked by, times ten.
ScoreOfEntry(p) ==
    4 * p.cpu_percent + 4 * (IF p.gpu_percent = None THEN 0 ELSE p.gpu_percent[1])
    + 2 * p.memory_percent

Platforms == {"linux", "windows"}
SensorBackends == {"rapl", "hwmon", "battery", "wmi"}
Backends == SensorBackends \cup {"estimator"}

\* The results each constructor can return, from its code.
RaplNewOutcomes == {"Ok", "HardwareNotSupported", "PermissionDenied", "Io", "PowerMonitor"}
HwmonNewOutcomes == {"Ok", "HardwareNotSupported", "Io"}
BatteryNewOutcomes == {"Ok", "HardwareNotSupported", "Io"}
WmiNewOutcomes == {"Ok"}

\* WmiMonitor::new: sys.cpus().len().
CoreCounts == {2, 4, 6, 8, 12, 16, 32}

\* WmiMonitor::estimate_cpu_tdp, in watts.
EstimateCpuTdp(core_count) ==
    IF core_count <= 2 THEN 35
    ELSE IF core_count <= 4 THEN 65
    ELSE IF core_count <= 6 THEN 95
    ELSE IF core_count <= 8 THEN 105
    ELSE IF core_count <= 12 THEN 125
    ELSE IF core_count <= 16 THEN 150
    ELSE 200

\* The order PowerMonitor::new calls the constructors in, per build target.
ChainOrder == IF platform = "linux" THEN <<"rapl", "hwmon", "battery">> ELSE <<"wmi">>

StartupInit ==
    /\ platform \in Platforms
    /\ selPc = IF platform = "linux" THEN "try_rapl" ELSE "try_wmi"
    /\ attempts = <<>>
    /\ outcome = [b \in SensorBackends |-> "untried"]
    /\ source = "none"
    /\ newResult = "pending"
    /\ now = 0
    /\ FieldsParked
    /\ CachesEmpty
    /\ OpParked
    /\ RaplParked
    /\ CmdParked
    /\ LoopsParked
    /\ MoreParked

\* What startup never touches.
notStartup == <<now, cacheVars, opVars, cmdVars, loopVars, moreVars>>

\* The fields a constructor that returned Ok has filled in.
RaplNewOk ==
    /\ \E m \in MaxEnergyChoices, e \in InitialEnergies :
         /\ max_energy' = m
         /\ hw_energy' = e
         /\ last_energy' = e
    /\ UNCHANGED <<hw_total, last_time, lock_energy, lock_time, rpc, cur, reads,
                   envSteps, energy_by, time_by, done>>
    /\ UNCHANGED fieldVars

WmiNewOk ==
    /\ \E g \in WmiGpuChoices, c \in CoreCounts :
         /\ gpu_source' = g[1]
         /\ nvml_state' = g[2]
         /\ cpu_tdp_estimate' = EstimateCpuTdp(c)
    /\ is_laptop' \in BOOLEAN
    /\ UNCHANGED raplVars

NewOk(b) ==
    CASE b = "rapl" -> RaplNewOk
      [] b = "wmi" -> WmiNewOk
      [] OTHER -> UNCHANGED <<fieldVars, raplVars>>

\* `if let Ok(b) = B::new() { return Ok(Self { source: b }) }`, then the next try.
Try(b, o, next) ==
    /\ attempts' = Append(attempts, b)
    /\ outcome' = [outcome EXCEPT ![b] = o]
    /\ IF o = "Ok"
         THEN /\ source' = b
              /\ newResult' = "Ok"
              /\ selPc' = "done"
              /\ NewOk(b)
         ELSE /\ source' = source
              /\ newResult' = newResult
              /\ selPc' = next
              /\ UNCHANGED <<fieldVars, raplVars>>
    /\ UNCHANGED <<platform, notStartup>>

TryRaplSkippingReturn ==
    /\ selPc \in {"try_rapl"}
    /\ \E o \in RaplNewOutcomes :
         /\ attempts' = Append(attempts, "rapl")
         /\ outcome' = [outcome EXCEPT !["rapl"] = o]
         /\ source' = IF o = "Ok" THEN "rapl" ELSE source
         /\ newResult' = IF o = "Ok" THEN "Ok" ELSE newResult
         /\ selPc' = "try_hwmon"
         /\ UNCHANGED <<platform, notStartup, fieldVars, raplVars>>

TryRapl ==
    /\ selPc = "try_rapl"
    /\ \E o \in RaplNewOutcomes : Try("rapl", o, "try_hwmon")

TryHwmon ==
    /\ selPc = "try_hwmon"
    /\ \E o \in HwmonNewOutcomes : Try("hwmon", o, "try_battery")

TryBattery ==
    /\ selPc = "try_battery"
    /\ \E o \in BatteryNewOutcomes : Try("battery", o, "new_err")

TryWmi ==
    /\ selPc = "try_wmi"
    /\ \E o \in WmiNewOutcomes : Try("wmi", o, "new_err")

\* PowerMonitor::new falls off the chain: Err(HardwareNotSupported).
NewReturnsErr ==
    /\ selPc = "new_err"
    /\ newResult' = "Err"
    /\ selPc' = "fallback"
    /\ UNCHANGED <<platform, attempts, outcome, source>>
    /\ UNCHANGED <<notStartup, fieldVars, raplVars>>

EstimationFallbackSkipped ==
    /\ selPc = "fallback"
    /\ selPc' = "done"
    /\ UNCHANGED <<platform, attempts, outcome, source, newResult>>
    /\ UNCHANGED <<notStartup, fieldVars, raplVars>>

\* main: PowerMonitor::new().unwrap_or_else(|e| PowerMonitor::estimation_fallback())
EstimationFallback ==
    /\ selPc = "fallback"
    /\ source' = "estimator"
    /\ selPc' = "done"
    /\ UNCHANGED <<platform, attempts, outcome, newResult>>
    /\ UNCHANGED <<notStartup, fieldVars, raplVars>>

StartupNext ==
    \/ TryRapl
    \/ TryHwmon
    \/ TryBattery
    \/ TryWmi
    \/ NewReturnsErr
    \/ EstimationFallback

\* Startup is straight-line code: every step that can be taken is taken.
SpecStartup == StartupInit /\ [][StartupNext]_vars /\ WF_vars(StartupNext)

\* The constructors called before the i-th call of the chain.
Earlier(i) == {attempts[j] : j \in 1..(i - 1)}

\* C7: PowerMonitor::new calls the constructors in the build target's fixed
\* order (RAPL, hwmon, battery on Linux; WMI on Windows) and installs the first
\* one that returns Ok: every constructor called before another one failed, so
\* none is called after a success, and the installed sensor backend is the
\* last one called and the only one that returned Ok.
FirstSuccessInFixedOrder ==
    /\ Len(attempts) <= Len(ChainOrder)
    /\ \A i \in 1..Len(attempts) :
         /\ attempts[i] = ChainOrder[i]
         /\ \A b \in Earlier(i) : outcome[b] \notin {"Ok", "untried"}
    /\ \A b \in SensorBackends :
         outcome[b] = "Ok" <=> source = b
    /\ source \in SensorBackends =>
         /\ Len(attempts) >= 1
         /\ source = attempts[Len(attempts)]

\* RAPL and hwmon failed, the battery constructor succeeded and is installed.
ThirdInOrderSelected ==
    /\ selPc = "done"
    /\ attempts = <<"rapl", "hwmon", "battery">>
    /\ outcome["rapl"] = "PermissionDenied"
    /\ source = "battery"

\* Every constructor of the chain was called and failed.
AllFailed ==
    /\ attempts = ChainOrder
    /\ \A i \in 1..Len(attempts) : outcome[attempts[i]] \notin {"Ok", "untried"}

OneBackendInstalled ==
    /\ selPc = "done" =>
         /\ source \in Backends
         /\ source = "estimator" <=> AllFailed
         /\ source \in SensorBackends => outcome[source] = "Ok" /\ newResult = "Ok"
         /\ source = "estimator" => newResult = "Err"
    /\ selPc # "done" =>
         /\ source = "none"
         /\ \A i \in 1..Len(attempts) : outcome[attempts[i]] \notin {"Ok", "untried"}
         /\ selPc \in {"try_rapl", "try_hwmon", "try_battery", "try_wmi",
                       "new_err", "fallback"}

\* C8: whatever the constructors return, startup ends, and ends with exactly
\* one backend installed: a failed constructor only moves on to the next one,
\* the estimator is installed exactly when every constructor of the chain
\* failed, and the Err of PowerMonitor::new is consumed by main's fallback.
StartupEndsWithOneBackend ==
    /\ []OneBackendInstalled
    /\ <>(selPc = "done" /\ source \in Backends)

\* All three Linux constructors failed and the estimator is installed.
EstimatorAfterAllFailed ==
    /\ selPc = "done"
    /\ source = "estimator"
    /\ Len(attempts) = 3
    /\ newResult = "Err"

=============================================================================
